---- MODULE Spec2Model ----
(***************************************************************************)
(* Shader-module subsystem of dawn_native (src/dawn_native/ShaderModule.cpp):*)
(* reflection of a SPIR-V module into EntryPointMetadata through the two    *)
(* backends (spvc, SPIRV-Cross), and validation of that metadata against    *)
(* bind group layouts and pipeline layouts; validation of a shader module   *)
(* descriptor; the life of a module object from construction or MakeError   *)
(* through InitializeBase, reflection, the metadata queries and the         *)
(* comparison the device's cache makes.                                     *)
(***************************************************************************)
EXTENDS Integers, Sequences, FiniteSets, TLC

VARIABLES
    shader,           \* what the reflection APIs report about the module's mSpirv
    useSpvc,          \* Toggle::UseSpvc of the device
    mMainEntryPoint,  \* ShaderModuleBase::mMainEntryPoint (NoMetadata = null)
    extractResult,    \* MaybeError returned by the last ExtractSpirvInfo
    entryPoint,       \* EntryPointMetadata handed to the layout checks
    layout,           \* PipelineLayoutBase handed to the layout checks
    validateResult,   \* MaybeError of ValidateCompatibilityWithPipelineLayout
    bufferSizes,      \* RequiredBufferSizes of ComputeRequiredBufferSizesForLayout
    wgslEnabled,      \* whether the build defines DAWN_ENABLE_WGSL
    descriptor,       \* ShaderModuleDescriptor: its chain of sub-descriptors
    descriptorResult, \* MaybeError of ValidateShaderModuleDescriptor
    validated,        \* payloads handed to ValidateSpirv / ValidateWGSL, in order
    modules,          \* the ShaderModuleBase objects alive, by name
    callResult,       \* what the last call on a module returned or tripped
    calls,            \* ExtractSpirvInfo calls under way, by thread
    cache,            \* the device's cache of shader modules
    client,           \* a dawn_wire::client::ShaderModule
    log               \* what has happened so far: callbacks run, reflections made

vars == <<shader, useSpvc, mMainEntryPoint, extractResult,
          entryPoint, layout, validateResult, bufferSizes,
          wgslEnabled, descriptor, descriptorResult, validated,
          modules, callResult, calls, cache, client, log>>

reflectVars == <<shader, useSpvc, mMainEntryPoint, extractResult>>
compatVars == <<entryPoint, layout, validateResult, bufferSizes>>
descriptorVars == <<wgslEnabled, descriptor, descriptorResult, validated>>
moduleVars == <<modules, callResult>>
otherVars == <<calls, cache, client, log>>

-----------------------------------------------------------------------------
(* Program constants (common/Constants.h, used by the checks below).        *)

kMaxBindGroups == 4
kMaxVertexAttributes == 16
kMaxColorAttachments == 4

(* Bounds of the model.                                                     *)

MaxGroup == 1      \* bind groups 0..MaxGroup are used by the drawn inputs
MaxBinding == 1    \* binding numbers 0..MaxBinding are used by the drawn inputs
MaxSizeExp == 3    \* buffer sizes drawn: 0, 32, 64, ... 2^(MaxSizeExp+4)

-----------------------------------------------------------------------------
(* Enumerations.                                                            *)

Stages == {"Vertex", "Fragment", "Compute"}

BufferTypes == {"UniformBuffer", "StorageBuffer", "ReadonlyStorageBuffer"}
SamplerTypes == {"Sampler", "ComparisonSampler"}
StorageTextureTypes ==
    {"StorageTexture", "ReadonlyStorageTexture", "WriteonlyStorageTexture"}
BindingTypes ==
    BufferTypes \cup SamplerTypes \cup {"SampledTexture"} \cup StorageTextureTypes

FormatTypes == {"Float", "Sint", "Uint", "Other"}

NoValue == "none"

(* No declaration at a key, on the shader side or on the layout side.       *)
NoInfo == [type |-> "None"]
IsInfo(x) == x.type # "None"

(* MaybeError: success, or a validation error.  The message of the errors   *)
(* raised per binding ends in GetShaderDeclarationString(group, binding),   *)
(* kept here as the two numbers.                                            *)
Success == [status |-> "ok", msg |-> "", group |-> -1, binding |-> -1]
ValidationError(m, g, b) == [status |-> "error", msg |-> m, group |-> g, binding |-> b]

(* std::map<K, V>: a function on the set of its keys; iterated by ascending *)
(* key.                                                                     *)
EmptyMap == [k \in {} |-> NoValue]

MinOf(S) == CHOOSE x \in S : \A y \in S : x <= y

-----------------------------------------------------------------------------
(* BindGroupLayoutBase and PipelineLayoutBase, as the checks read them.     *)
(* A bind group layout is its packed vector of BindingInfo, buffers first.  *)

IsBufferBinding(info) == info.type \in BufferTypes

GetBindingInfo(bgl, bindingIndex) == bgl[bindingIndex + 1]

GetBufferCount(bgl) == Cardinality({i \in 1..Len(bgl) : IsBufferBinding(bgl[i])})

GetUnverifiedBufferCount(bgl) ==
    Cardinality({i \in 1..Len(bgl) :
                    IsBufferBinding(bgl[i]) /\ bgl[i].minBufferBindingSize = 0})

GetBindingMap(bgl) ==
    [b \in {bgl[i].binding : i \in 1..Len(bgl)} |->
        (CHOOSE i \in 1..Len(bgl) : bgl[i].binding = b) - 1]

GetBindGroupLayoutsMask(pl) == pl.mask

GetBindGroupLayout(pl, group) == pl.bindGroupLayouts[group]

StageBit(stage) == {stage}

-----------------------------------------------------------------------------
(* GetBindGroupMinBufferSizes.                                              *)

(* ASSERT(packedIdx < requiredBufferSizes.size()) failing: no vector of     *)
(* sizes is returned.                                                       *)
AssertFailure == <<-1>>

ShaderMinBufferSize(shaderBindings, bindingNumber) ==
    IF bindingNumber \in DOMAIN shaderBindings
    THEN shaderBindings[bindingNumber].minBufferBindingSize
    ELSE 0

(* Every buffer binding takes a slot of the result, pinned or not.          *)
SkipsPinnedBinding_Never(bindingInfo) == FALSE

SkipsPinnedBinding(bindingInfo) == bindingInfo.minBufferBindingSize # 0

RECURSIVE MinBufferSizesLoop(_, _, _, _, _)
MinBufferSizesLoop(shaderBindings, bgl, bindingIndex, packedIdx, requiredBufferSizes) ==
    IF ~(bindingIndex < GetBufferCount(bgl))
    THEN requiredBufferSizes
    ELSE LET bindingInfo == GetBindingInfo(bgl, bindingIndex) IN
         IF SkipsPinnedBinding(bindingInfo)
         THEN MinBufferSizesLoop(shaderBindings, bgl, bindingIndex + 1, packedIdx,
                                 requiredBufferSizes)
         ELSE IF ~(packedIdx < Len(requiredBufferSizes))
         THEN AssertFailure
         ELSE MinBufferSizesLoop(
                  shaderBindings, bgl, bindingIndex + 1, packedIdx + 1,
                  [requiredBufferSizes EXCEPT ![packedIdx + 1] =
                      ShaderMinBufferSize(shaderBindings, bindingInfo.binding)])

GetBindGroupMinBufferSizes(shaderBindings, bgl) ==
    MinBufferSizesLoop(shaderBindings, bgl, 0, 0,
                       [i \in 1..GetUnverifiedBufferCount(bgl) |-> 0])

-----------------------------------------------------------------------------
(* ValidateCompatibilityWithBindGroupLayout.                                *)

(* The storage-buffer relaxation applied in both directions.                *)
ValidBindingConversion_Symmetric(layoutType, shaderType) ==
    \/ {layoutType, shaderType} = {"StorageBuffer", "ReadonlyStorageBuffer"}
    \/ layoutType = "Sampler" /\ shaderType = "ComparisonSampler"
    \/ layoutType = "ComparisonSampler" /\ shaderType = "Sampler"

(* The sampler relaxation applied in one direction only.                    *)
ValidBindingConversion_OneWaySampler(layoutType, shaderType) ==
    \/ layoutType = "StorageBuffer" /\ shaderType = "ReadonlyStorageBuffer"
    \/ layoutType = "Sampler" /\ shaderType = "ComparisonSampler"

(* Any two buffer kinds taken as convertible.                               *)
ValidBindingConversion_AnyBuffer(layoutType, shaderType) ==
    \/ layoutType \in BufferTypes /\ shaderType \in BufferTypes
    \/ layoutType = "Sampler" /\ shaderType = "ComparisonSampler"
    \/ layoutType = "ComparisonSampler" /\ shaderType = "Sampler"

ValidBindingConversion(layoutType, shaderType) ==
    \/ layoutType = "StorageBuffer" /\ shaderType = "ReadonlyStorageBuffer"
    \/ layoutType = "Sampler" /\ shaderType = "ComparisonSampler"
    \/ layoutType = "ComparisonSampler" /\ shaderType = "Sampler"

(* The visibility mask never consulted.                                     *)
IsVisible_Always(layoutInfo, stage) == TRUE

IsVisible(layoutInfo, stage) == (layoutInfo.visibility \cap StageBit(stage)) # {}

(* UNREACHABLE() followed by the "Unsupported binding type" error.           *)
Unreachable(g, b) == [status |-> "unreachable", msg |-> "Unsupported binding type",
                      group |-> g, binding |-> b]

(* The view dimension of a sampled texture never compared.                  *)
CheckSampledTexture_ComponentTypeOnly(group, bindingNumber, shaderInfo, layoutInfo) ==
    IF layoutInfo.textureComponentType # shaderInfo.textureComponentType
    THEN ValidationError("textureComponentType", group, bindingNumber)
    ELSE Success

(* case wgpu::BindingType::SampledTexture                                   *)
CheckSampledTexture(group, bindingNumber, shaderInfo, layoutInfo) ==
    IF layoutInfo.textureComponentType # shaderInfo.textureComponentType
    THEN ValidationError("textureComponentType", group, bindingNumber)
    ELSE IF layoutInfo.viewDimension # shaderInfo.viewDimension
    THEN ValidationError("viewDimension", group, bindingNumber)
    ELSE Success

(* A pinned size of 0 compared like any other.                              *)
ExceedsPinnedSize_ZeroCompared(shaderInfo, layoutInfo) ==
    shaderInfo.minBufferBindingSize > layoutInfo.minBufferBindingSize

(* The condition of the buffer cases.                                       *)
ExceedsPinnedSize(shaderInfo, layoutInfo) ==
    /\ layoutInfo.minBufferBindingSize # 0
    /\ shaderInfo.minBufferBindingSize > layoutInfo.minBufferBindingSize

(* ASSERT(cond) with cond false.                                            *)
AssertFailed(g, b) == [status |-> "assert", msg |-> "ASSERT", group |-> g, binding |-> b]

(* The storage texture format of the two sides never compared.              *)
CheckStorageTexture_FormatNotCompared(group, bindingNumber, shaderInfo, layoutInfo) ==
    IF \/ layoutInfo.storageTextureFormat = "Undefined"
       \/ shaderInfo.storageTextureFormat = "Undefined"
    THEN AssertFailed(group, bindingNumber)
    ELSE IF layoutInfo.viewDimension # shaderInfo.viewDimension
    THEN ValidationError("viewDimension", group, bindingNumber)
    ELSE Success

(* case wgpu::BindingType::ReadonlyStorageTexture / WriteonlyStorageTexture *)
CheckStorageTexture(group, bindingNumber, shaderInfo, layoutInfo) ==
    IF \/ layoutInfo.storageTextureFormat = "Undefined"
       \/ shaderInfo.storageTextureFormat = "Undefined"
    THEN AssertFailed(group, bindingNumber)
    ELSE IF layoutInfo.storageTextureFormat # shaderInfo.storageTextureFormat
    THEN ValidationError("storageTextureFormat", group, bindingNumber)
    ELSE IF layoutInfo.viewDimension # shaderInfo.viewDimension
    THEN ValidationError("viewDimension", group, bindingNumber)
    ELSE Success
(* The switch with read-write storage textures checked like the other two.  *)
CheckBindingKind_StorageTextureChecked(group, bindingNumber, shaderInfo, layoutInfo) ==
    CASE layoutInfo.type = "SampledTexture" ->
            CheckSampledTexture(group, bindingNumber, shaderInfo, layoutInfo)
      [] layoutInfo.type \in StorageTextureTypes ->
            CheckStorageTexture(group, bindingNumber, shaderInfo, layoutInfo)
      [] layoutInfo.type \in BufferTypes ->
            IF ExceedsPinnedSize(shaderInfo, layoutInfo)
            THEN ValidationError("minBufferBindingSize", group, bindingNumber)
            ELSE Success
      [] layoutInfo.type \in SamplerTypes -> Success
      [] OTHER -> Unreachable(group, bindingNumber)

(* The switch on layoutInfo.type at the end of the loop body.               *)
CheckBindingKind(group, bindingNumber, shaderInfo, layoutInfo) ==
    CASE layoutInfo.type = "SampledTexture" ->
            CheckSampledTexture(group, bindingNumber, shaderInfo, layoutInfo)
      [] layoutInfo.type \in {"ReadonlyStorageTexture", "WriteonlyStorageTexture"} ->
            CheckStorageTexture(group, bindingNumber, shaderInfo, layoutInfo)
      [] layoutInfo.type \in BufferTypes ->
            IF ExceedsPinnedSize(shaderInfo, layoutInfo)
            THEN ValidationError("minBufferBindingSize", group, bindingNumber)
            ELSE Success
      [] layoutInfo.type \in SamplerTypes -> Success
      [] OTHER -> Unreachable(group, bindingNumber)

(* A binding the layout does not declare passed over.                      *)
CheckBinding_MissingEntrySkipped(group, stage, bindingNumber, shaderInfo, bgl) ==
    LET layoutBindings == GetBindingMap(bgl) IN
    IF bindingNumber \notin DOMAIN layoutBindings
    THEN Success
    ELSE LET layoutInfo == GetBindingInfo(bgl, layoutBindings[bindingNumber]) IN
         IF /\ layoutInfo.type # shaderInfo.type
            /\ ~ValidBindingConversion(layoutInfo.type, shaderInfo.type)
         THEN ValidationError("TypeConflict", group, bindingNumber)
         ELSE IF ~IsVisible(layoutInfo, stage)
         THEN ValidationError("NotVisible", group, bindingNumber)
         ELSE CheckBindingKind(group, bindingNumber, shaderInfo, layoutInfo)

(* One iteration of the loop over entryPoint.bindings[group].               *)
CheckBinding(group, stage, bindingNumber, shaderInfo, bgl) ==
    LET layoutBindings == GetBindingMap(bgl) IN
    IF bindingNumber \notin DOMAIN layoutBindings
    THEN ValidationError("MissingEntry", group, bindingNumber)
    ELSE LET layoutInfo == GetBindingInfo(bgl, layoutBindings[bindingNumber]) IN
         IF /\ layoutInfo.type # shaderInfo.type
            /\ ~ValidBindingConversion(layoutInfo.type, shaderInfo.type)
         THEN ValidationError("TypeConflict", group, bindingNumber)
         ELSE IF ~IsVisible(layoutInfo, stage)
         THEN ValidationError("NotVisible", group, bindingNumber)
         ELSE CheckBindingKind(group, bindingNumber, shaderInfo, layoutInfo)

RECURSIVE BindGroupLoop(_, _, _, _)
BindGroupLoop(group, ep, bgl, todo) ==
    IF todo = {} THEN Success
    ELSE LET bindingNumber == MinOf(todo)
             r == CheckBinding(group, ep.stage, bindingNumber,
                               ep.bindings[group][bindingNumber], bgl)
         IN IF r # Success THEN r
            ELSE BindGroupLoop(group, ep, bgl, todo \ {bindingNumber})
(* The loop run over the layout's entries instead of the shader's bindings. *)
ValidateCompatibilityWithBindGroupLayout_LayoutDriven(group, ep, bgl) ==
    LET undeclared == DOMAIN GetBindingMap(bgl) \ DOMAIN ep.bindings[group] IN
    IF undeclared # {}
    THEN ValidationError("MissingEntry", group, MinOf(undeclared))
    ELSE BindGroupLoop(group, ep, bgl, DOMAIN ep.bindings[group])

ValidateCompatibilityWithBindGroupLayout(group, ep, bgl) ==
    BindGroupLoop(group, ep, bgl, DOMAIN ep.bindings[group])

-----------------------------------------------------------------------------
(* ComputeRequiredBufferSizesForLayout and                                  *)
(* ValidateCompatibilityWithPipelineLayout.                                 *)

ComputeRequiredBufferSizesForLayout(ep, pl) ==
    [group \in GetBindGroupLayoutsMask(pl) |->
        GetBindGroupMinBufferSizes(ep.bindings[group], GetBindGroupLayout(pl, group))]

RECURSIVE ActiveGroupsLoop(_, _, _)
ActiveGroupsLoop(ep, pl, todo) ==
    IF todo = {} THEN Success
    ELSE LET group == MinOf(todo)
             r == ValidateCompatibilityWithBindGroupLayout(
                      group, ep, GetBindGroupLayout(pl, group))
         IN IF r # Success THEN r
            ELSE ActiveGroupsLoop(ep, pl, todo \ {group})

InactiveGroups(pl) == (0..(kMaxBindGroups - 1)) \ GetBindGroupLayoutsMask(pl)

(* Bindings in groups outside the mask never looked at.                     *)
MissingGroupCheck_Skipped(ep, pl) == Success

MissingGroupCheck(ep, pl) ==
    LET declared == {g \in InactiveGroups(pl) : DOMAIN ep.bindings[g] # {}} IN
    IF declared # {}
    THEN ValidationError("NoBindGroupLayout", MinOf(declared), -1)
    ELSE Success

ValidateCompatibilityWithPipelineLayout(ep, pl) ==
    LET r == ActiveGroupsLoop(ep, pl, GetBindGroupLayoutsMask(pl)) IN
    IF r # Success THEN r ELSE MissingGroupCheck(ep, pl)

-----------------------------------------------------------------------------
(* Conversions of the reflection backends.                                  *)

(* UNREACHABLE() reached by a conversion.                                   *)
UnreachableValue == "UNREACHABLE"

SpirvCrossBaseTypeToFormatType(spirvBaseType) ==
    CASE spirvBaseType = "Float" -> "Float"
      [] spirvBaseType = "Int" -> "Sint"
      [] spirvBaseType = "UInt" -> "Uint"
      [] OTHER -> UnreachableValue

SpirvDimToTextureViewDimension(dim, arrayed) ==
    CASE dim = "Dim1D" -> "e1D"
      [] dim = "Dim2D" -> IF arrayed THEN "e2DArray" ELSE "e2D"
      [] dim = "Dim3D" -> "e3D"
      [] dim = "DimCube" -> IF arrayed THEN "CubeArray" ELSE "Cube"
      [] OTHER -> UnreachableValue

ToWGPUTextureViewDimension(dim) ==
    CASE dim = "undefined" -> "Undefined"
      [] dim = "e1D" -> "e1D"
      [] dim = "e2D" -> "e2D"
      [] dim = "e2D_array" -> "e2DArray"
      [] dim = "cube" -> "Cube"
      [] dim = "cube_array" -> "CubeArray"
      [] dim = "e3D" -> "e3D"
      [] OTHER -> UnreachableValue

ToDawnFormatType(type) ==
    CASE type = "float" -> "Float"
      [] type = "sint" -> "Sint"
      [] type = "uint" -> "Uint"
      [] type = "other" -> "Other"
      [] OTHER -> UnreachableValue

ToWGPUBindingType(type) ==
    CASE type = "uniform_buffer" -> "UniformBuffer"
      [] type = "storage_buffer" -> "StorageBuffer"
      [] type = "readonly_storage_buffer" -> "ReadonlyStorageBuffer"
      [] type = "sampler" -> "Sampler"
      [] type = "comparison_sampler" -> "ComparisonSampler"
      [] type = "sampled_texture" -> "SampledTexture"
      [] type = "readonly_storage_texture" -> "ReadonlyStorageTexture"
      [] type = "writeonly_storage_texture" -> "WriteonlyStorageTexture"
      [] type = "storage_texture" -> "StorageTexture"
      [] OTHER -> UnreachableValue

ToSingleShaderStage(execution_model) ==
    CASE execution_model = "vertex" -> "Vertex"
      [] execution_model = "fragment" -> "Fragment"
      [] execution_model = "glcompute" -> "Compute"
      [] OTHER -> UnreachableValue

Lookup(table, key, default) ==
    IF \E e \in table : e[1] = key
    THEN (CHOOSE e \in table : e[1] = key)[2]
    ELSE default

(* spv::ImageFormat -> wgpu::TextureFormat                                  *)
SpvImageFormatTable ==
    { <<"R8", "R8Unorm">>, <<"R8Snorm", "R8Snorm">>, <<"R8ui", "R8Uint">>,
      <<"R8i", "R8Sint">>, <<"R16ui", "R16Uint">>, <<"R16i", "R16Sint">>,
      <<"R16f", "R16Float">>, <<"Rg8", "RG8Unorm">>, <<"Rg8Snorm", "RG8Snorm">>,
      <<"Rg8ui", "RG8Uint">>, <<"Rg8i", "RG8Sint">>, <<"R32f", "R32Float">>,
      <<"R32ui", "R32Uint">>, <<"R32i", "R32Sint">>, <<"Rg16ui", "RG16Uint">>,
      <<"Rg16i", "RG16Sint">>, <<"Rg16f", "RG16Float">>, <<"Rgba8", "RGBA8Unorm">>,
      <<"Rgba8Snorm", "RGBA8Snorm">>, <<"Rgba8ui", "RGBA8Uint">>,
      <<"Rgba8i", "RGBA8Sint">>, <<"Rgb10A2", "RGB10A2Unorm">>,
      <<"R11fG11fB10f", "RG11B10Ufloat">>, <<"Rg32f", "RG32Float">>,
      <<"Rg32ui", "RG32Uint">>, <<"Rg32i", "RG32Sint">>, <<"Rgba16ui", "RGBA16Uint">>,
      <<"Rgba16i", "RGBA16Sint">>, <<"Rgba16f", "RGBA16Float">>,
      <<"Rgba32f", "RGBA32Float">>, <<"Rgba32ui", "RGBA32Uint">>,
      <<"Rgba32i", "RGBA32Sint">> }

ToWGPUTextureFormat(format) == Lookup(SpvImageFormatTable, format, "Undefined")

(* shaderc_spvc_storage_texture_format -> wgpu::TextureFormat               *)
SpvcStorageTextureFormatTable ==
    { <<"r8unorm", "R8Unorm">>, <<"r8snorm", "R8Snorm">>, <<"r8uint", "R8Uint">>,
      <<"r8sint", "R8Sint">>, <<"r16uint", "R16Uint">>, <<"r16sint", "R16Sint">>,
      <<"r16float", "R16Float">>, <<"rg8unorm", "RG8Unorm">>,
      <<"rg8snorm", "RG8Snorm">>, <<"rg8uint", "RG8Uint">>, <<"rg8sint", "RG8Sint">>,
      <<"r32float", "R32Float">>, <<"r32uint", "R32Uint">>, <<"r32sint", "R32Sint">>,
      <<"rg16uint", "RG16Uint">>, <<"rg16sint", "RG16Sint">>,
      <<"rg16float", "RG16Float">>, <<"rgba8unorm", "RGBA8Unorm">>,
      <<"rgba8snorm", "RGBA8Snorm">>, <<"rgba8uint", "RGBA8Uint">>,
      <<"rgba8sint", "RGBA8Sint">>, <<"rgb10a2unorm", "RGB10A2Unorm">>,
      <<"rg11b10float", "RG11B10Ufloat">>, <<"rg32float", "RG32Float">>,
      <<"rg32uint", "RG32Uint">>, <<"rg32sint", "RG32Sint">>,
      <<"rgba16uint", "RGBA16Uint">>, <<"rgba16sint", "RGBA16Sint">>,
      <<"rgba16float", "RGBA16Float">>, <<"rgba32float", "RGBA32Float">>,
      <<"rgba32uint", "RGBA32Uint">>, <<"rgba32sint", "RGBA32Sint">> }

ToWGPUTextureFormatSpvc(format) ==
    Lookup(SpvcStorageTextureFormatTable, format, "Undefined")

(* Format::supportsStorageUsage of the device's format table.               *)
StorageUsageFormats ==
    {"R32Uint", "R32Sint", "R32Float", "RGBA8Unorm", "RGBA8Snorm", "RGBA8Uint",
     "RGBA8Sint", "RG32Float", "RG32Uint", "RG32Sint", "RGBA16Uint", "RGBA16Sint",
     "RGBA16Float", "RGBA32Float", "RGBA32Uint", "RGBA32Sint"}

SupportsStorageUsage(format) == format \in StorageUsageFormats

-----------------------------------------------------------------------------
(* ResultOrError<std::unique_ptr<EntryPointMetadata>>                       *)

NoMetadata == [stage |-> "None"]
NoResult == [status |-> "none", msg |-> "", group |-> -1, binding |-> -1]

(* No descriptor under validation; no module object alive.                  *)
NoDescriptor == [chain |-> <<>>]
NoCall == [op |-> "None"]
NoClient == [mCompilationInfoRequestSerial |-> 0, mCompilationInfoRequests |-> EmptyMap]
NoDescriptorState ==
    /\ wgslEnabled = FALSE
    /\ descriptor = NoDescriptor
    /\ descriptorResult = NoResult
    /\ validated = <<>>
NoModuleState ==
    /\ modules = EmptyMap
    /\ callResult = NoCall
    /\ calls = EmptyMap
    /\ cache = {}
    /\ client = NoClient
    /\ log = <<>>

Reflected(metadata) == [status |-> "ok", msg |-> "", metadata |-> metadata]
ReflectionError(m) == [status |-> "error", msg |-> m, metadata |-> NoMetadata]
ReflectionUnreachable == [status |-> "unreachable", msg |-> "", metadata |-> NoMetadata]

(* EntryPointMetadata::EntryPointMetadata()                                 *)
NewEntryPointMetadata ==
    [stage |-> "None",
     bindings |-> [g \in 0..(kMaxBindGroups - 1) |-> EmptyMap],
     usedVertexAttributes |-> {},
     fragmentOutputFormatBaseTypes |-> [l \in 0..(kMaxColorAttachments - 1) |-> "Other"]]

(* ShaderBindingInfo{} : value-initialised.                                 *)
DefaultShaderBindingInfo ==
    [type |-> "UniformBuffer", minBufferBindingSize |-> 0, multisampled |-> FALSE,
     viewDimension |-> "Undefined", textureComponentType |-> "Float",
     storageTextureFormat |-> "Undefined"]

(* A key declared before silently declared again.                          *)
EmplaceFails_Never(bindings, group, bindingNumber) == FALSE

(* !it.second: the key is already in the map and emplace inserts nothing.   *)
EmplaceFails(bindings, group, bindingNumber) == bindingNumber \in DOMAIN bindings[group]

(* metadataBindings[bindGroupIndex].emplace(bindingNumber, info)            *)
Emplace(bindings, group, bindingNumber, info) ==
    [bindings EXCEPT ![group] =
        [b \in DOMAIN bindings[group] \cup {bindingNumber} |->
            IF b = bindingNumber THEN info ELSE bindings[group][b]]]

(* The result of a resource loop: the bindings so far, or the error.        *)
Bound(bindings) == [status |-> "ok", msg |-> "", bindings |-> bindings]
BindError(m) == [status |-> "error", msg |-> m, bindings |-> EmptyMap]
BindUnreachable == [status |-> "unreachable", msg |-> "", bindings |-> EmptyMap]

(* A write through an index outside the container: bindings is an array of  *)
(* kMaxBindGroups maps, usedVertexAttributes a bitset of                    *)
(* kMaxVertexAttributes bits, fragmentOutputFormatBaseTypes an array of     *)
(* kMaxColorAttachments entries.                                            *)
OutOfBounds == "outofbounds"
BindOutOfBounds == [status |-> OutOfBounds, msg |-> "", bindings |-> EmptyMap]

(* A backend that ended in neither a result nor a validation error.         *)
ReflectionAborted(status) == [status |-> status, msg |-> "", metadata |-> NoMetadata]

(* The limit compared with > instead of >=.                                 *)
OutputOverLimit_OffByOne(location) == location > kMaxColorAttachments

GroupOverLimit(bindGroupIndex) == bindGroupIndex >= kMaxBindGroups
AttributeOverLimit(location) == location >= kMaxVertexAttributes
OutputOverLimit(location) == location >= kMaxColorAttachments

-----------------------------------------------------------------------------
(* ExtractSpirvInfoWithSpirvCross.                                          *)

CrossStage(execution_model) ==
    CASE execution_model = "Vertex" -> "Vertex"
      [] execution_model = "Fragment" -> "Fragment"
      [] execution_model = "GLCompute" -> "Compute"
      [] OTHER -> UnreachableValue

(* The storage-image classification by the NonReadable / NonWritable        *)
(* decorations.                                                             *)
CrossStorageTextureType_NonReadableIgnored(resource) ==
    IF resource.nonWritable THEN "ReadonlyStorageTexture" ELSE "StorageTexture"
(* The two qualifiers tested in the other order.                            *)
CrossStorageTextureType_NonWritableFirst(resource) ==
    IF resource.nonWritable THEN "ReadonlyStorageTexture"
    ELSE IF resource.nonReadable THEN "WriteonlyStorageTexture"
    ELSE "StorageTexture"

CrossStorageTextureType(resource) ==
    IF resource.nonReadable THEN "WriteonlyStorageTexture"
    ELSE IF resource.nonWritable THEN "ReadonlyStorageTexture"
    ELSE "StorageTexture"

CrossStorageBufferType(resource) ==
    IF resource.nonWritable THEN "ReadonlyStorageBuffer" ELSE "StorageBuffer"

(* The ShaderBindingInfo the lambda fills for one resource, or the error.   *)
CrossBindingInfo(resource, bindingType) ==
    LET sized == IF bindingType \in BufferTypes
                 THEN [DefaultShaderBindingInfo EXCEPT
                          !.minBufferBindingSize = resource.structSize]
                 ELSE DefaultShaderBindingInfo
    IN
    CASE bindingType = "SampledTexture" ->
            LET vd == SpirvDimToTextureViewDimension(resource.dim, resource.arrayed)
                ct == SpirvCrossBaseTypeToFormatType(resource.basetype)
            IN IF vd = UnreachableValue \/ ct = UnreachableValue
               THEN [status |-> "unreachable", msg |-> ""]
               ELSE [status |-> "ok", msg |-> "",
                     info |-> [sized EXCEPT !.multisampled = resource.ms,
                                            !.viewDimension = vd,
                                            !.textureComponentType = ct,
                                            !.type = bindingType]]
      [] bindingType = "StorageBuffer" ->
            [status |-> "ok", msg |-> "",
             info |-> [sized EXCEPT !.type = CrossStorageBufferType(resource)]]
      [] bindingType = "StorageTexture" ->
            LET storageTextureFormat == ToWGPUTextureFormat(resource.format)
                vd == SpirvDimToTextureViewDimension(resource.dim, resource.arrayed)
            IN IF storageTextureFormat = "Undefined"
               THEN [status |-> "error", msg |-> "InvalidImageFormat"]
               ELSE IF ~SupportsStorageUsage(storageTextureFormat)
               THEN [status |-> "error", msg |-> "StorageFormatNotSupported"]
               ELSE IF vd = UnreachableValue
               THEN [status |-> "unreachable", msg |-> ""]
               ELSE [status |-> "ok", msg |-> "",
                     info |-> [sized EXCEPT !.type = CrossStorageTextureType(resource),
                                            !.multisampled = resource.ms,
                                            !.storageTextureFormat = storageTextureFormat,
                                            !.viewDimension = vd]]
      [] OTHER ->
            [status |-> "ok", msg |-> "", info |-> [sized EXCEPT !.type = bindingType]]

RECURSIVE CrossExtractResourcesBinding(_, _, _, _)
CrossExtractResourcesBinding(resources, i, bindingType, bindings) ==
    IF i > Len(resources) THEN Bound(bindings)
    ELSE LET resource == resources[i] IN
         IF ~resource.hasBinding THEN BindError("NoBindingDecoration")
         ELSE IF ~resource.hasSet THEN BindError("NoDescriptorSetDecoration")
         ELSE IF GroupOverLimit(resource.set) THEN BindError("BindGroupIndexOverLimits")
         ELSE IF resource.set \notin DOMAIN bindings THEN BindOutOfBounds
         ELSE IF EmplaceFails(bindings, resource.set, resource.binding)
         THEN BindError("DuplicateBindings")
         ELSE LET r == CrossBindingInfo(resource, bindingType) IN
              IF r.status = "error" THEN BindError(r.msg)
              ELSE IF r.status = "unreachable" THEN BindUnreachable
              ELSE CrossExtractResourcesBinding(
                       resources, i + 1, bindingType,
                       Emplace(bindings, resource.set, resource.binding, r.info))

(* The five calls of the lambda, in their order.                            *)
ResourceClasses ==
    << <<"uniform_buffers", "UniformBuffer">>,
       <<"separate_images", "SampledTexture">>,
       <<"separate_samplers", "Sampler">>,
       <<"storage_buffers", "StorageBuffer">>,
       <<"storage_images", "StorageTexture">> >>

RECURSIVE CrossExtractAllResources(_, _, _)
CrossExtractAllResources(sh, c, bindings) ==
    IF c > Len(ResourceClasses) THEN Bound(bindings)
    ELSE LET r == CrossExtractResourcesBinding(
                      sh[ResourceClasses[c][1]], 1, ResourceClasses[c][2], bindings)
         IN IF r.status # "ok" THEN r
            ELSE CrossExtractAllResources(sh, c + 1, r.bindings)

(* Vertex stage: the loop over resources.stage_inputs.                      *)
RECURSIVE CrossVertexInputs(_, _, _)
CrossVertexInputs(inputs, i, used) ==
    IF i > Len(inputs) THEN [status |-> "ok", msg |-> "", used |-> used]
    ELSE IF ~inputs[i].has_location
    THEN [status |-> "error", msg |-> "NoLocationForVertexInput", used |-> {}]
    ELSE IF AttributeOverLimit(inputs[i].location)
    THEN [status |-> "error", msg |-> "AttributeLocationOverLimits", used |-> {}]
    ELSE IF inputs[i].location \notin 0..(kMaxVertexAttributes - 1)
    THEN [status |-> OutOfBounds, msg |-> "", used |-> {}]
    ELSE CrossVertexInputs(inputs, i + 1, used \cup {inputs[i].location})

AllHaveLocation(variables) == \A i \in 1..Len(variables) : variables[i].has_location

(* Fragment stage: the loop over resources.stage_outputs.                   *)
RECURSIVE CrossFragmentOutputs(_, _, _)
CrossFragmentOutputs(outputs, i, types) ==
    IF i > Len(outputs) THEN [status |-> "ok", msg |-> "", types |-> types]
    ELSE IF ~outputs[i].has_location
    THEN [status |-> "error", msg |-> "NoLocationForFragmentOutput", types |-> types]
    ELSE IF OutputOverLimit(outputs[i].location)
    THEN [status |-> "error", msg |-> "FragmentOutputLocationOverLimits", types |-> types]
    ELSE LET formatType == SpirvCrossBaseTypeToFormatType(outputs[i].basetype) IN
         IF formatType = UnreachableValue
         THEN [status |-> "unreachable", msg |-> "", types |-> types]
         ELSE IF formatType = "Other"
         THEN [status |-> "error", msg |-> "UnexpectedFragmentOutputType", types |-> types]
         ELSE IF outputs[i].location \notin DOMAIN types
         THEN [status |-> OutOfBounds, msg |-> "", types |-> types]
         ELSE CrossFragmentOutputs(outputs, i + 1,
                                   [types EXCEPT ![outputs[i].location] = formatType])

CrossStageInterface(sh, metadata) ==
    CASE metadata.stage = "Vertex" ->
            LET r == CrossVertexInputs(sh.stage_inputs, 1, metadata.usedVertexAttributes) IN
            IF r.status \notin {"ok", "error"} THEN ReflectionAborted(r.status)
            ELSE IF r.status # "ok" THEN ReflectionError(r.msg)
            ELSE IF ~AllHaveLocation(sh.stage_outputs)
            THEN ReflectionError("NeedLocationOnVertexOutput")
            ELSE Reflected([metadata EXCEPT !.usedVertexAttributes = r.used])
      [] metadata.stage = "Fragment" ->
            IF ~AllHaveLocation(sh.stage_inputs)
            THEN ReflectionError("NeedLocationOnFragmentInput")
            ELSE LET r == CrossFragmentOutputs(sh.stage_outputs, 1,
                                               metadata.fragmentOutputFormatBaseTypes)
                 IN IF r.status \notin {"ok", "error"} THEN ReflectionAborted(r.status)
                    ELSE IF r.status # "ok" THEN ReflectionError(r.msg)
                    ELSE Reflected([metadata EXCEPT
                                       !.fragmentOutputFormatBaseTypes = r.types])
      [] OTHER -> Reflected(metadata)

ExtractSpirvInfoWithSpirvCross(sh) ==
    LET stage == CrossStage(sh.execution_model) IN
    IF stage = UnreachableValue THEN ReflectionUnreachable
    ELSE IF sh.push_constant_buffers > 0 THEN ReflectionError("PushConstants")
    ELSE IF sh.sampled_images > 0 THEN ReflectionError("CombinedImageSamplers")
    ELSE LET r == CrossExtractAllResources(sh, 1, NewEntryPointMetadata.bindings) IN
         IF r.status \notin {"ok", "error"} THEN ReflectionAborted(r.status)
         ELSE IF r.status # "ok" THEN ReflectionError(r.msg)
         ELSE CrossStageInterface(
                  sh, [NewEntryPointMetadata EXCEPT !.stage = stage,
                                                    !.bindings = r.bindings])

-----------------------------------------------------------------------------
(* The shaderc_spvc context, as ExtractSpirvInfoWithSpvc reads it.  The     *)
(* context reports the facts of the module that SPIRV-Cross reports, in the *)
(* vocabulary of the shaderc_spvc enumerations.                             *)

SpvcGetExecutionModel(sh) ==
    CASE sh.execution_model = "Vertex" -> "vertex"
      [] sh.execution_model = "Fragment" -> "fragment"
      [] sh.execution_model = "GLCompute" -> "glcompute"
      [] OTHER -> "invalid"

SpvcGetPushConstantBufferCount(sh) == sh.push_constant_buffers

(* spv::ImageFormat -> shaderc_spvc_storage_texture_format                  *)
SpvcImageFormatTable ==
    { <<"R8", "r8unorm">>, <<"R8Snorm", "r8snorm">>, <<"R8ui", "r8uint">>,
      <<"R8i", "r8sint">>, <<"R16ui", "r16uint">>, <<"R16i", "r16sint">>,
      <<"R16f", "r16float">>, <<"Rg8", "rg8unorm">>, <<"Rg8Snorm", "rg8snorm">>,
      <<"Rg8ui", "rg8uint">>, <<"Rg8i", "rg8sint">>, <<"R32f", "r32float">>,
      <<"R32ui", "r32uint">>, <<"R32i", "r32sint">>, <<"Rg16ui", "rg16uint">>,
      <<"Rg16i", "rg16sint">>, <<"Rg16f", "rg16float">>, <<"Rgba8", "rgba8unorm">>,
      <<"Rgba8Snorm", "rgba8snorm">>, <<"Rgba8ui", "rgba8uint">>,
      <<"Rgba8i", "rgba8sint">>, <<"Rgb10A2", "rgb10a2unorm">>,
      <<"R11fG11fB10f", "rg11b10float">>, <<"Rg32f", "rg32float">>,
      <<"Rg32ui", "rg32uint">>, <<"Rg32i", "rg32sint">>, <<"Rgba16ui", "rgba16uint">>,
      <<"Rgba16i", "rgba16sint">>, <<"Rgba16f", "rgba16float">>,
      <<"Rgba32f", "rgba32float">>, <<"Rgba32ui", "rgba32uint">>,
      <<"Rgba32i", "rgba32sint">> }

SpvcTextureDimension(dim, arrayed) ==
    CASE dim = "Dim1D" -> "e1D"
      [] dim = "Dim2D" -> IF arrayed THEN "e2D_array" ELSE "e2D"
      [] dim = "Dim3D" -> "e3D"
      [] dim = "DimCube" -> IF arrayed THEN "cube_array" ELSE "cube"
      [] OTHER -> "undefined"

SpvcTextureFormatType(basetype) ==
    CASE basetype = "Float" -> "float"
      [] basetype = "Int" -> "sint"
      [] basetype = "UInt" -> "uint"
      [] OTHER -> "other"

SpvcBindingType(resource, binding_type) ==
    CASE binding_type = "storage_buffer" ->
            IF resource.nonWritable THEN "readonly_storage_buffer" ELSE "storage_buffer"
      [] binding_type = "storage_texture" ->
            IF resource.nonReadable THEN "writeonly_storage_texture"
            ELSE IF resource.nonWritable THEN "readonly_storage_texture"
            ELSE "storage_texture"
      [] OTHER -> binding_type

SpvcBindingInfoOf(resource, binding_type) ==
    [set |-> resource.set,
     binding |-> resource.binding,
     binding_type |-> SpvcBindingType(resource, binding_type),
     texture_dimension |-> SpvcTextureDimension(resource.dim, resource.arrayed),
     texture_component_type |-> SpvcTextureFormatType(resource.basetype),
     multisampled |-> resource.ms,
     storage_texture_format |-> Lookup(SpvcImageFormatTable, resource.format, "undefined"),
     minimum_buffer_size |-> resource.structSize]

(* Context::GetBindingInfo: fails when a resource of the class carries no   *)
(* Binding or no DescriptorSet decoration.                                  *)
SpvcGetBindingInfo(sh, resourceClass, binding_type) ==
    LET resources == sh[resourceClass] IN
    IF \E i \in 1..Len(resources) : ~resources[i].hasBinding \/ ~resources[i].hasSet
    THEN [status |-> "error", bindings |-> <<>>]
    ELSE [status |-> "ok",
          bindings |-> [i \in 1..Len(resources) |->
                           SpvcBindingInfoOf(resources[i], binding_type)]]

SpvcGetInputStageLocationInfo(sh) ==
    [i \in 1..Len(sh.stage_inputs) |->
        [has_location |-> sh.stage_inputs[i].has_location,
         location |-> sh.stage_inputs[i].location]]

SpvcGetOutputStageLocationInfo(sh) ==
    [i \in 1..Len(sh.stage_outputs) |->
        [has_location |-> sh.stage_outputs[i].has_location,
         location |-> sh.stage_outputs[i].location]]

SpvcGetOutputStageTypeInfo(sh) ==
    [i \in 1..Len(sh.stage_outputs) |->
        [location |-> sh.stage_outputs[i].location,
         type |-> SpvcTextureFormatType(sh.stage_outputs[i].basetype)]]

-----------------------------------------------------------------------------
(* ExtractSpirvInfoWithSpvc.                                                *)

(* The ShaderBindingInfo the lambda fills for one spvc binding, or the      *)
(* error.                                                                   *)
SpvcShaderBindingInfo(binding) ==
    LET type == ToWGPUBindingType(binding.binding_type)
        typed == [DefaultShaderBindingInfo EXCEPT !.type = type]
    IN
    CASE type = UnreachableValue -> [status |-> "unreachable", msg |-> ""]
      [] type = "SampledTexture" ->
            LET vd == ToWGPUTextureViewDimension(binding.texture_dimension)
                ct == ToDawnFormatType(binding.texture_component_type)
            IN IF vd = UnreachableValue \/ ct = UnreachableValue
               THEN [status |-> "unreachable", msg |-> ""]
               ELSE [status |-> "ok", msg |-> "",
                     info |-> [typed EXCEPT !.multisampled = binding.multisampled,
                                            !.viewDimension = vd,
                                            !.textureComponentType = ct]]
      [] type \in StorageTextureTypes ->
            LET storageTextureFormat ==
                    ToWGPUTextureFormatSpvc(binding.storage_texture_format)
                vd == ToWGPUTextureViewDimension(binding.texture_dimension)
            IN IF storageTextureFormat = "Undefined"
               THEN [status |-> "error", msg |-> "InvalidImageFormat"]
               ELSE IF ~SupportsStorageUsage(storageTextureFormat)
               THEN [status |-> "error", msg |-> "StorageFormatNotSupported"]
               ELSE IF vd = UnreachableValue
               THEN [status |-> "unreachable", msg |-> ""]
               ELSE [status |-> "ok", msg |-> "",
                     info |-> [typed EXCEPT !.multisampled = binding.multisampled,
                                            !.storageTextureFormat = storageTextureFormat,
                                            !.viewDimension = vd]]
      [] type \in BufferTypes ->
            [status |-> "ok", msg |-> "",
             info |-> [typed EXCEPT !.minBufferBindingSize = binding.minimum_buffer_size]]
      [] OTHER -> [status |-> "ok", msg |-> "", info |-> typed]

RECURSIVE SpvcExtractResourcesBinding(_, _, _)
SpvcExtractResourcesBinding(spvcBindings, i, bindings) ==
    IF i > Len(spvcBindings) THEN Bound(bindings)
    ELSE LET binding == spvcBindings[i] IN
         IF GroupOverLimit(binding.set) THEN BindError("BindGroupIndexOverLimits")
         ELSE IF binding.set \notin DOMAIN bindings THEN BindOutOfBounds
         ELSE IF EmplaceFails(bindings, binding.set, binding.binding)
         THEN BindError("DuplicateBindings")
         ELSE LET r == SpvcShaderBindingInfo(binding) IN
              IF r.status = "error" THEN BindError(r.msg)
              ELSE IF r.status = "unreachable" THEN BindUnreachable
              ELSE SpvcExtractResourcesBinding(
                       spvcBindings, i + 1,
                       Emplace(bindings, binding.set, binding.binding, r.info))

(* The five GetBindingInfo calls, in their order.                           *)
SpvcResourceClasses ==
    << <<"uniform_buffers", "uniform_buffer">>,
       <<"separate_images", "sampled_texture">>,
       <<"separate_samplers", "sampler">>,
       <<"storage_buffers", "storage_buffer">>,
       <<"storage_images", "storage_texture">> >>

RECURSIVE SpvcExtractAllResources(_, _, _)
SpvcExtractAllResources(sh, c, bindings) ==
    IF c > Len(SpvcResourceClasses) THEN Bound(bindings)
    ELSE LET resource_bindings ==
                 SpvcGetBindingInfo(sh, SpvcResourceClasses[c][1], SpvcResourceClasses[c][2])
         IN IF resource_bindings.status # "ok" THEN BindError("UnableToGetBindingInfo")
            ELSE LET r == SpvcExtractResourcesBinding(resource_bindings.bindings, 1, bindings)
                 IN IF r.status # "ok" THEN r
                    ELSE SpvcExtractAllResources(sh, c + 1, r.bindings)

(* The loop over input_stage_locations.                                     *)
RECURSIVE SpvcInputLocations(_, _, _, _)
SpvcInputLocations(stage, inputs, i, used) ==
    IF i > Len(inputs) THEN [status |-> "ok", msg |-> "", used |-> used]
    ELSE IF stage = "Vertex"
    THEN IF AttributeOverLimit(inputs[i].location)
         THEN [status |-> "error", msg |-> "AttributeLocationOverLimits", used |-> {}]
         ELSE IF inputs[i].location \notin 0..(kMaxVertexAttributes - 1)
         THEN [status |-> OutOfBounds, msg |-> "", used |-> {}]
         ELSE SpvcInputLocations(stage, inputs, i + 1, used \cup {inputs[i].location})
    ELSE IF stage = "Fragment" /\ ~inputs[i].has_location
    THEN [status |-> "error", msg |-> "NeedLocationOnFragmentInput", used |-> {}]
    ELSE SpvcInputLocations(stage, inputs, i + 1, used)

(* The loop over output_stage_locations.                                    *)
SpvcOutputLocations(stage, outputs) ==
    IF \E i \in 1..Len(outputs) :
          \/ stage = "Vertex" /\ ~outputs[i].has_location
          \/ stage = "Fragment" /\ OutputOverLimit(outputs[i].location)
    THEN IF stage = "Vertex"
         THEN [status |-> "error", msg |-> "NeedLocationOnVertexOutput"]
         ELSE [status |-> "error", msg |-> "FragmentOutputLocationOverLimits"]
    ELSE [status |-> "ok", msg |-> ""]

(* The loop over output_types of a fragment shader.                         *)
RECURSIVE SpvcOutputTypes(_, _, _)
SpvcOutputTypes(output_types, i, types) ==
    IF i > Len(output_types) THEN [status |-> "ok", msg |-> "", types |-> types]
    ELSE IF output_types[i].type = "other"
    THEN [status |-> "error", msg |-> "UnexpectedFragmentOutputType", types |-> types]
    ELSE LET formatType == ToDawnFormatType(output_types[i].type) IN
         IF formatType = UnreachableValue
         THEN [status |-> "unreachable", msg |-> "", types |-> types]
         ELSE IF output_types[i].location \notin DOMAIN types
         THEN [status |-> OutOfBounds, msg |-> "", types |-> types]
         ELSE SpvcOutputTypes(output_types, i + 1,
                              [types EXCEPT ![output_types[i].location] = formatType])

SpvcStageInterface(sh, metadata) ==
    LET ins == SpvcInputLocations(metadata.stage, SpvcGetInputStageLocationInfo(sh), 1,
                                  metadata.usedVertexAttributes)
        outs == SpvcOutputLocations(metadata.stage, SpvcGetOutputStageLocationInfo(sh))
    IN
    IF ins.status \notin {"ok", "error"} THEN ReflectionAborted(ins.status)
    ELSE IF ins.status # "ok" THEN ReflectionError(ins.msg)
    ELSE IF outs.status # "ok" THEN ReflectionError(outs.msg)
    ELSE LET located == [metadata EXCEPT !.usedVertexAttributes = ins.used] IN
         IF metadata.stage = "Fragment"
         THEN LET r == SpvcOutputTypes(SpvcGetOutputStageTypeInfo(sh), 1,
                                       metadata.fragmentOutputFormatBaseTypes)
              IN IF r.status \notin {"ok", "error"} THEN ReflectionAborted(r.status)
                 ELSE IF r.status # "ok" THEN ReflectionError(r.msg)
                 ELSE Reflected([located EXCEPT !.fragmentOutputFormatBaseTypes = r.types])
         ELSE Reflected(located)

ExtractSpirvInfoWithSpvc(sh) ==
    LET stage == ToSingleShaderStage(SpvcGetExecutionModel(sh)) IN
    IF stage = UnreachableValue THEN ReflectionUnreachable
    ELSE IF SpvcGetPushConstantBufferCount(sh) > 0 THEN ReflectionError("PushConstants")
    ELSE LET r == SpvcExtractAllResources(sh, 1, NewEntryPointMetadata.bindings) IN
         IF r.status \notin {"ok", "error"} THEN ReflectionAborted(r.status)
         ELSE IF r.status # "ok" THEN ReflectionError(r.msg)
         ELSE SpvcStageInterface(
                  sh, [NewEntryPointMetadata EXCEPT !.stage = stage,
                                                    !.bindings = r.bindings])

-----------------------------------------------------------------------------
(* Inputs of the layout checks: an EntryPointMetadata and a pipeline layout *)
(* built from at most two binding slots.  A slot is a (group, binding) key  *)
(* with the shader's declaration at that key, the layout's entry at that    *)
(* key, or both.  The first slot ranges over every pairing of a shader      *)
(* declaration with a layout entry; the second over a few fixed pairings.   *)

BufferSizes == {0} \cup {2^(k + 4) : k \in 1..MaxSizeExp}

CompatComponentTypes == {"Float", "Uint"}
CompatViewDimensions == {"e2D", "Cube"}
CompatStorageFormats == {"RGBA8Unorm", "R32Float"}
Visibilities == {{"Vertex"}, {"Fragment", "Compute"}}

CompatShaderInfos ==
    {[DefaultShaderBindingInfo EXCEPT !.type = t, !.minBufferBindingSize = s] :
        t \in BufferTypes, s \in BufferSizes}
    \cup {[DefaultShaderBindingInfo EXCEPT !.type = t] : t \in SamplerTypes}
    \cup {[DefaultShaderBindingInfo EXCEPT !.type = "SampledTexture",
              !.textureComponentType = c, !.viewDimension = d] :
            c \in CompatComponentTypes, d \in CompatViewDimensions}
    \cup {[DefaultShaderBindingInfo EXCEPT !.type = t,
              !.storageTextureFormat = f, !.viewDimension = d] :
            t \in StorageTextureTypes, f \in CompatStorageFormats,
            d \in CompatViewDimensions}

(* BindingInfo of a layout entry; the binding number is set when the slot   *)
(* is placed.                                                               *)
DefaultBindingInfo ==
    [binding |-> 0, visibility |-> {}, type |-> "UniformBuffer",
     textureComponentType |-> "Float", viewDimension |-> "Undefined",
     storageTextureFormat |-> "Undefined", minBufferBindingSize |-> 0]

CompatLayoutInfos ==
    UNION {
        {[DefaultBindingInfo EXCEPT !.visibility = v, !.type = t,
             !.minBufferBindingSize = s] : t \in BufferTypes, s \in BufferSizes}
        \cup {[DefaultBindingInfo EXCEPT !.visibility = v, !.type = t] :
                t \in SamplerTypes}
        \cup {[DefaultBindingInfo EXCEPT !.visibility = v, !.type = "SampledTexture",
                  !.textureComponentType = c, !.viewDimension = d] :
                c \in CompatComponentTypes, d \in CompatViewDimensions}
        \cup {[DefaultBindingInfo EXCEPT !.visibility = v, !.type = t,
                  !.storageTextureFormat = f, !.viewDimension = d] :
                t \in StorageTextureTypes, f \in CompatStorageFormats,
                d \in CompatViewDimensions}
        : v \in Visibilities}

(* One declaration per kind, for the pairings in which the code reads no    *)
(* per-kind field.                                                          *)
RepShaderInfo(t) ==
    [DefaultShaderBindingInfo EXCEPT
        !.type = t,
        !.minBufferBindingSize = IF t \in BufferTypes THEN 64 ELSE 0,
        !.viewDimension = IF t \in BufferTypes \cup SamplerTypes
                          THEN "Undefined" ELSE "e2D",
        !.storageTextureFormat = IF t \in StorageTextureTypes
                                 THEN "RGBA8Unorm" ELSE "Undefined"]

RepLayoutInfo(t, v) ==
    [DefaultBindingInfo EXCEPT
        !.type = t,
        !.visibility = v,
        !.viewDimension = IF t \in BufferTypes \cup SamplerTypes
                          THEN "Undefined" ELSE "e2D",
        !.storageTextureFormat = IF t \in StorageTextureTypes
                                 THEN "RGBA8Unorm" ELSE "Undefined"]

(* The first slot: every pairing of two buffer declarations and of two      *)
(* declarations of one kind, with every value of their fields; one pairing  *)
(* for every other two kinds; and every one-sided declaration.             *)
FocusPairs ==
    {p \in CompatShaderInfos \X CompatLayoutInfos :
        \/ p[1].type \in BufferTypes /\ p[2].type \in BufferTypes
        \/ p[1].type = p[2].type}
    \cup {<<RepShaderInfo(k[1]), RepLayoutInfo(k[2], v)>> :
            k \in {q \in BindingTypes \X BindingTypes : q[1] # q[2]},
            v \in Visibilities}
    \cup {<<si, NoInfo>> : si \in CompatShaderInfos}
    \cup {<<NoInfo, li>> : li \in CompatLayoutInfos}

CompanionPairs ==
    { <<[DefaultShaderBindingInfo EXCEPT !.type = "Sampler"],
        [DefaultBindingInfo EXCEPT !.type = "Sampler", !.visibility = Stages]>>,
      <<[DefaultShaderBindingInfo EXCEPT !.minBufferBindingSize = 64], NoInfo>>,
      <<NoInfo,
        [DefaultBindingInfo EXCEPT !.type = "StorageBuffer", !.visibility = Stages]>>,
      <<[DefaultShaderBindingInfo EXCEPT !.minBufferBindingSize = 32],
        [DefaultBindingInfo EXCEPT !.minBufferBindingSize = 64,
                                   !.visibility = Stages]>> }

NoPair == <<NoInfo, NoInfo>>

(* A read-write StorageTexture declared on both sides and visible to the    *)
(* stage is the branch marked UNREACHABLE: no bind group layout the checks  *)
(* are handed has it.                                                       *)
IsUnreachablePair(stage, pair) ==
    /\ pair[1].type = "StorageTexture"
    /\ pair[2].type = "StorageTexture"
    /\ stage \in pair[2].visibility

Slot(g, b, pair) == [group |-> g, binding |-> b, shader |-> pair[1], layout |-> pair[2]]

(* The first slot sits in group 0; the second, when there is one, in group 0*)
(* at the next binding number, or at binding 0 of another group.            *)
SlotsOf(fb, fp, cg, cp) ==
    {Slot(0, fb, fp)}
    \cup (IF cp = NoPair THEN {}
          ELSE {Slot(cg, IF cg = 0 THEN (fb + 1) % (MaxBinding + 1) ELSE 0, cp)})

ShaderBindingsOf(slots, g) ==
    LET mine == {s \in slots : s.group = g /\ IsInfo(s.shader)} IN
    [b \in {s.binding : s \in mine} |->
        (CHOOSE s \in mine : s.binding = b).shader]

MetadataOf(stage, slots) ==
    [stage |-> stage,
     bindings |-> [g \in 0..(kMaxBindGroups - 1) |-> ShaderBindingsOf(slots, g)],
     usedVertexAttributes |-> {},
     fragmentOutputFormatBaseTypes |-> [l \in 0..(kMaxColorAttachments - 1) |-> "Other"]]

LayoutEntriesOf(slots, g) ==
    {[s.layout EXCEPT !.binding = s.binding] :
        s \in {t \in slots : t.group = g /\ IsInfo(t.layout)}}

(* The packed orders of a set of entries: every order with the buffers first.*)
PackedOrders(entries) ==
    {q \in [1..Cardinality(entries) -> entries] :
        /\ \A i, j \in DOMAIN q : i # j => q[i] # q[j]
        /\ \A i, j \in DOMAIN q :
              (IsBufferBinding(q[j]) /\ ~IsBufferBinding(q[i])) => j < i}

(* A group is active when the layout has entries for it; a group where only *)
(* the shader declares something is active (with an empty layout) or not.   *)
MasksOf(slots) ==
    LET must == {s.group : s \in {t \in slots : IsInfo(t.layout)}}
        may == {s.group : s \in slots} \ must
    IN {must \cup extra : extra \in SUBSET may}

PipelineLayoutOf(slots, m, order) ==
    [mask |-> m,
     bindGroupLayouts |->
        [g \in m |->
            LET orders == PackedOrders(LayoutEntriesOf(slots, g)) IN
            IF order \in orders THEN order ELSE CHOOSE q \in orders : TRUE]]

-----------------------------------------------------------------------------
(* The layout checks applied to the drawn metadata and layout.              *)

NoSizes == [computed |-> FALSE, sizes |-> EmptyMap]

InitCompat ==
    /\ shader = NoValue
    /\ useSpvc = FALSE
    /\ mMainEntryPoint = NoMetadata
    /\ extractResult = NoResult
    /\ \E stage \in Stages, fb \in 0..MaxBinding, fp \in FocusPairs,
          cg \in 0..MaxGroup, cp \in CompanionPairs \cup {NoPair} :
          LET slots == SlotsOf(fb, fp, cg, cp) IN
          /\ cp = NoPair => cg = 0
          /\ ~IsUnreachablePair(stage, fp)
          /\ entryPoint = MetadataOf(stage, slots)
          /\ \E m \in MasksOf(slots) :
                \E order \in PackedOrders(LayoutEntriesOf(slots, 0)) :
                    layout = PipelineLayoutOf(slots, m, order)
    /\ validateResult = NoResult
    /\ bufferSizes = NoSizes
    /\ NoDescriptorState
    /\ NoModuleState

DoValidateCompatibilityWithPipelineLayout ==
    /\ validateResult' = ValidateCompatibilityWithPipelineLayout(entryPoint, layout)
    /\ UNCHANGED <<entryPoint, layout, bufferSizes>>
    /\ UNCHANGED reflectVars
    /\ UNCHANGED <<descriptorVars, moduleVars, otherVars>>

DoComputeRequiredBufferSizesForLayout ==
    /\ bufferSizes' = [computed |-> TRUE,
                       sizes |-> ComputeRequiredBufferSizesForLayout(entryPoint, layout)]
    /\ UNCHANGED <<entryPoint, layout, validateResult>>
    /\ UNCHANGED reflectVars
    /\ UNCHANGED <<descriptorVars, moduleVars, otherVars>>

NextCompat ==
    \/ DoValidateCompatibilityWithPipelineLayout
    \/ DoComputeRequiredBufferSizesForLayout

SpecCompat == InitCompat /\ [][NextCompat]_vars

-----------------------------------------------------------------------------
(* Inputs of reflection: the facts of a SPIR-V module that the two backends *)
(* read.  A module has one resource whose facts and decorations range over  *)
(* everything the backends distinguish, at most one further resource, and   *)
(* up to MaxStageVars stage inputs and outputs.                             *)

ExecutionModels == {"Vertex", "Fragment", "GLCompute"}

DefaultResource ==
    [class |-> "uniform_buffers", hasBinding |-> TRUE, hasSet |-> TRUE,
     binding |-> 0, set |-> 0, structSize |-> 0, nonWritable |-> FALSE,
     nonReadable |-> FALSE, dim |-> "Dim2D", arrayed |-> FALSE, ms |-> FALSE,
     basetype |-> "Float", format |-> "Unknown"]

ReflectStructSizes == BufferSizes \ {0}
ReflectDims == {"Dim1D", "Dim2D", "Dim3D", "DimCube"}
ReflectBaseTypes == {"Float", "Int", "UInt"}
(* mapped and storable, mapped and not storable, unmapped, undeclared       *)
ReflectImageFormats == {"Rgba8", "R32ui", "R8", "Rgb10A2", "Rgba16", "Unknown"}

ResourceFacts ==
    {[DefaultResource EXCEPT !.class = "uniform_buffers", !.structSize = z] :
        z \in ReflectStructSizes}
    \cup {[DefaultResource EXCEPT !.class = "storage_buffers", !.structSize = z,
                                  !.nonWritable = w] :
             z \in ReflectStructSizes, w \in BOOLEAN}
    \cup {[DefaultResource EXCEPT !.class = "separate_images", !.dim = d, !.arrayed = a] :
             d \in ReflectDims, a \in BOOLEAN}
    \cup {[DefaultResource EXCEPT !.class = "separate_images", !.basetype = t, !.ms = m] :
             t \in ReflectBaseTypes, m \in BOOLEAN}
    \cup {[DefaultResource EXCEPT !.class = "separate_samplers"]}
    \cup {[DefaultResource EXCEPT !.class = "storage_images", !.format = f,
                                  !.nonReadable = r, !.nonWritable = w] :
             f \in ReflectImageFormats, r \in BOOLEAN, w \in BOOLEAN}
    \cup {[DefaultResource EXCEPT !.class = "storage_images", !.format = "Rgba8",
                                  !.dim = d, !.arrayed = a] :
             d \in ReflectDims, a \in BOOLEAN}

ResourceDecorations ==
    {[hasBinding |-> TRUE, hasSet |-> TRUE, binding |-> b, set |-> g] :
        b \in 0..MaxBinding, g \in (0..MaxGroup) \cup {kMaxBindGroups}}
    \cup {[hasBinding |-> FALSE, hasSet |-> TRUE, binding |-> 0, set |-> 0],
          [hasBinding |-> TRUE, hasSet |-> FALSE, binding |-> 0, set |-> 0]}

Decorated(facts, d) ==
    [facts EXCEPT !.hasBinding = d.hasBinding, !.hasSet = d.hasSet,
                  !.binding = d.binding, !.set = d.set]

NoResource == [class |-> "None"]

(* The further resource: it sits at (0, 0) or in the last drawn group.      *)
CompanionResources ==
    {NoResource,
     [DefaultResource EXCEPT !.class = "uniform_buffers", !.structSize = 32],
     [DefaultResource EXCEPT !.class = "separate_samplers"],
     [DefaultResource EXCEPT !.class = "storage_images", !.format = "Rgba8",
                             !.set = MaxGroup],
     [DefaultResource EXCEPT !.class = "storage_buffers", !.structSize = 64,
                             !.set = MaxGroup, !.binding = MaxBinding]}

(* The resources of one class, in declaration order.                        *)
ResourcesOfClass(class, declared) ==
    LET idx == {i \in 1..Len(declared) : declared[i].class = class}
        RECURSIVE Pick(_)
        Pick(S) == IF S = {} THEN <<>>
                   ELSE <<declared[MinOf(S)]>> \o Pick(S \ {MinOf(S)})
    IN Pick(idx)

StageVariable(has, loc, basetype) ==
    [has_location |-> has, location |-> loc, basetype |-> basetype]

MaxLocation == 1     \* stage variables sit at locations 0..MaxLocation or at a limit
MaxStageVars == 2    \* a module declares at most this many inputs and as many outputs

StageLocations == (0..MaxLocation) \cup {kMaxColorAttachments, kMaxVertexAttributes}

StageInputs == {StageVariable(h, l, "Float") : h \in BOOLEAN, l \in StageLocations}
StageOutputs ==
    {StageVariable(h, l, t) : h \in BOOLEAN, l \in StageLocations, t \in ReflectBaseTypes}

SeqsUpTo(S, n) == UNION {[1..k -> S] : k \in 0..n}

LocatedFloat(l) == StageVariable(TRUE, l, "Float")
PlainStageInputs == {<<>>, <<LocatedFloat(0)>>}
PlainStageOutputs == {<<>>, <<LocatedFloat(0)>>}

ShaderOf(model, pushConstants, sampledImages, declared, inputs, outputs) ==
    [execution_model |-> model,
     push_constant_buffers |-> pushConstants,
     sampled_images |-> sampledImages,
     uniform_buffers |-> ResourcesOfClass("uniform_buffers", declared),
     separate_images |-> ResourcesOfClass("separate_images", declared),
     separate_samplers |-> ResourcesOfClass("separate_samplers", declared),
     storage_buffers |-> ResourcesOfClass("storage_buffers", declared),
     storage_images |-> ResourcesOfClass("storage_images", declared),
     stage_inputs |-> inputs,
     stage_outputs |-> outputs]

NoLayout == [mask |-> {}, bindGroupLayouts |-> EmptyMap]

(* A module whose resources vary, with plain stage variables.               *)
InitResources ==
    \E model \in ExecutionModels, f \in ResourceFacts, d \in ResourceDecorations,
       c \in CompanionResources, focusFirst \in BOOLEAN,
       pc \in 0..1, si \in 0..1,
       inputs \in PlainStageInputs, outputs \in PlainStageOutputs :
        LET focus == Decorated(f, d)
            declared == IF c = NoResource THEN <<focus>>
                        ELSE IF focusFirst THEN <<focus, c>> ELSE <<c, focus>>
        IN /\ c = NoResource => focusFirst
           /\ pc + si <= 1
           /\ (pc + si > 0) => (c = NoResource /\ inputs = <<>> /\ outputs = <<>>)
           /\ shader = ShaderOf(model, pc, si, declared, inputs, outputs)

(* A module whose stage variables vary, with at most one plain resource.    *)
InitStageVariables ==
    \E model \in ExecutionModels, c \in CompanionResources,
       inputs \in SeqsUpTo(StageInputs, MaxStageVars),
       outputs \in SeqsUpTo(StageOutputs, MaxStageVars) :
        /\ inputs \in PlainStageInputs \/ outputs \in PlainStageOutputs
        /\ c \in {NoResource, [DefaultResource EXCEPT !.class = "separate_samplers"]}
        /\ shader = ShaderOf(model, 0, 0, IF c = NoResource THEN <<>> ELSE <<c>>,
                             inputs, outputs)

Init ==
    /\ InitResources \/ InitStageVariables
    /\ useSpvc \in BOOLEAN
    /\ mMainEntryPoint = NoMetadata
    /\ extractResult = NoResult
    /\ entryPoint = NoMetadata
    /\ layout = NoLayout
    /\ validateResult = NoResult
    /\ bufferSizes = NoSizes
    /\ NoDescriptorState
    /\ NoModuleState
(* The assignment made whatever the backend returns.                        *)
ExtractSpirvInfo_AssignsAlways ==
    /\ extractResult = NoResult
    /\ LET r == IF useSpvc
                THEN ExtractSpirvInfoWithSpvc(shader)
                ELSE ExtractSpirvInfoWithSpirvCross(shader)
       IN /\ mMainEntryPoint' = r.metadata
          /\ extractResult' = CASE r.status = "ok" -> Success
                                [] r.status = "error" -> ValidationError(r.msg, -1, -1)
                                [] r.status = "unreachable" -> Unreachable(-1, -1)
                                [] OTHER -> [status |-> r.status, msg |-> "",
                                             group |-> -1, binding |-> -1]
    /\ UNCHANGED <<shader, useSpvc>>
    /\ UNCHANGED compatVars
    /\ UNCHANGED <<descriptorVars, moduleVars, otherVars>>

(* ShaderModuleBase::ExtractSpirvInfo, called once by InitializeBase.       *)
ExtractSpirvInfo ==
    /\ extractResult = NoResult
    /\ LET r == IF useSpvc
                THEN ExtractSpirvInfoWithSpvc(shader)
                ELSE ExtractSpirvInfoWithSpirvCross(shader)
       IN /\ mMainEntryPoint' = IF r.status = "ok" THEN r.metadata ELSE mMainEntryPoint
          /\ extractResult' = CASE r.status = "ok" -> Success
                                [] r.status = "error" -> ValidationError(r.msg, -1, -1)
                                [] r.status = "unreachable" -> Unreachable(-1, -1)
                                [] OTHER -> [status |-> r.status, msg |-> "",
                                             group |-> -1, binding |-> -1]
    /\ UNCHANGED <<shader, useSpvc>>
    /\ UNCHANGED compatVars
    /\ UNCHANGED <<descriptorVars, moduleVars, otherVars>>

Next == ExtractSpirvInfo

Spec == Init /\ [][Next]_vars

Extracted == extractResult.status # "none"

(* What the backend that the toggle did not select makes of the module.     *)
OtherBackend ==
    IF useSpvc THEN ExtractSpirvInfoWithSpirvCross(shader)
    ELSE ExtractSpirvInfoWithSpvc(shader)

(* C1: for every module, the Spvc backend and the SPIRV-Cross backend have  *)
(* the same outcome: both fail, or both succeed with equal                  *)
(* EntryPointMetadata.  Stated on the module the program reflected: the     *)
(* backend the toggle did not select fails exactly when the selected one    *)
(* failed, and otherwise yields the metadata the module got.                *)
C1_BackendParity ==
    Extracted =>
        /\ (extractResult.status = "ok") <=> (OtherBackend.status = "ok")
        /\ extractResult.status = "ok" => mMainEntryPoint = OtherBackend.metadata

-----------------------------------------------------------------------------
(* Vocabulary of the properties of the layout checks.                       *)

Validated == validateResult.status # "none"

(* The keys the shader declares in the groups the layout activates.         *)
DeclaredKeys ==
    UNION {{<<g, b>> : b \in DOMAIN entryPoint.bindings[g]} :
              g \in GetBindGroupLayoutsMask(layout)}

ShaderInfoAt(k) == entryPoint.bindings[k[1]][k[2]]

HasLayoutEntry(k) ==
    \E i \in 1..Len(layout.bindGroupLayouts[k[1]]) :
        layout.bindGroupLayouts[k[1]][i].binding = k[2]

LayoutInfoAt(k) ==
    LET bgl == layout.bindGroupLayouts[k[1]] IN
    bgl[CHOOSE i \in 1..Len(bgl) : bgl[i].binding = k[2]]

(* The shader and the layout both declare key k.                            *)
PairedKeys == {k \in DeclaredKeys : HasLayoutEntry(k)}

VisibleAt(k) == entryPoint.stage \in LayoutInfoAt(k).visibility

(* The validation ended with the error raised for key k.                    *)
FailsAt(k) ==
    /\ validateResult.status = "error"
    /\ validateResult.msg # "NoBindGroupLayout"
    /\ validateResult.group = k[1]
    /\ validateResult.binding = k[2]

(* The validation ended with an error raised for key k or for a key that is *)
(* examined before k (groups and binding numbers are visited in ascending   *)
(* order).                                                                  *)
FailsAtOrBefore(k) ==
    /\ validateResult.status = "error"
    /\ validateResult.msg # "NoBindGroupLayout"
    /\ \/ validateResult.group < k[1]
       \/ validateResult.group = k[1] /\ validateResult.binding <= k[2]

(* Key k was examined and no error was raised for it.                       *)
PassedAt(k) ==
    \/ validateResult.status = "ok"
    \/ /\ validateResult.status = "error"
       /\ \/ validateResult.msg = "NoBindGroupLayout"
          \/ validateResult.group > k[1]
          \/ validateResult.group = k[1] /\ validateResult.binding > k[2]

(* Key k makes the validation fail, with the error m if it is the first to. *)
RejectedWith(k, m) == FailsAtOrBefore(k) /\ (FailsAt(k) => validateResult.msg = m)

SizeFits(k) ==
    \/ LayoutInfoAt(k).minBufferBindingSize = 0
    \/ ShaderInfoAt(k).minBufferBindingSize <= LayoutInfoAt(k).minBufferBindingSize

IsReadonlyOverStorage(k) ==
    ShaderInfoAt(k).type = "ReadonlyStorageBuffer" /\ LayoutInfoAt(k).type = "StorageBuffer"

IsStorageOverReadonly(k) ==
    ShaderInfoAt(k).type = "StorageBuffer" /\ LayoutInfoAt(k).type = "ReadonlyStorageBuffer"

IsSamplerSwap(k) == {ShaderInfoAt(k).type, LayoutInfoAt(k).type} = SamplerTypes

ToleratedMismatch(k) == IsReadonlyOverStorage(k) \/ IsSamplerSwap(k)

KindsAgree(k) == ShaderInfoAt(k).type = LayoutInfoAt(k).type \/ ToleratedMismatch(k)

-----------------------------------------------------------------------------
(* C2 as stated: a shader ReadonlyStorageBuffer over a layout StorageBuffer *)
(* with the stage visible always passes, and the swapped kinds always fail. *)
C2_AsStated ==
    Validated =>
        \A k \in PairedKeys :
            /\ (IsReadonlyOverStorage(k) /\ VisibleAt(k)) => ~FailsAt(k)
            /\ IsStorageOverReadonly(k) => RejectedWith(k, "TypeConflict")

(* C2 amended: a shader ReadonlyStorageBuffer over a layout StorageBuffer   *)
(* with the stage visible is never a kind conflict, and passes whenever the *)
(* layout pins no minimum size or one that is at least the shader's         *)
(* required size; the swapped kinds fail with the kind conflict.            *)
C2_ReadonlyOverStorage ==
    Validated =>
        \A k \in PairedKeys :
            /\ (IsReadonlyOverStorage(k) /\ VisibleAt(k)) =>
                  /\ FailsAt(k) => validateResult.msg = "minBufferBindingSize"
                  /\ SizeFits(k) => ~FailsAt(k)
            /\ IsStorageOverReadonly(k) => RejectedWith(k, "TypeConflict")

C2_Witness ==
    /\ Validated
    /\ \E k \in PairedKeys :
          IsReadonlyOverStorage(k) /\ VisibleAt(k) /\ SizeFits(k) /\ PassedAt(k)
              /\ ShaderInfoAt(k).minBufferBindingSize > 0

(* C3: a Sampler on one side and a ComparisonSampler on the other, with the *)
(* stage visible, pass in both directions; nothing else is checked for them.*)
C3_SamplerSwap ==
    Validated =>
        \A k \in PairedKeys :
            (IsSamplerSwap(k) /\ VisibleAt(k)) => ~FailsAt(k)

C3_Witness ==
    /\ validateResult.status = "ok"
    /\ \E k \in PairedKeys :
          /\ ShaderInfoAt(k).type = "Sampler"
          /\ LayoutInfoAt(k).type = "ComparisonSampler"

(* C4: two different kinds at a key are a binding-type conflict, except the *)
(* three tolerated pairs, for which the conflict error is never raised.     *)
C4_KindConflict ==
    Validated =>
        \A k \in PairedKeys :
            /\ ~KindsAgree(k) => RejectedWith(k, "TypeConflict")
            /\ KindsAgree(k) => ~(FailsAt(k) /\ validateResult.msg = "TypeConflict")

C4_Witness ==
    /\ Validated
    /\ \E k \in PairedKeys :
          /\ FailsAt(k)
          /\ validateResult.msg = "TypeConflict"
          /\ ShaderInfoAt(k).type = "UniformBuffer"
          /\ LayoutInfoAt(k).type = "StorageBuffer"
          /\ VisibleAt(k)

(* C5: for a buffer entry with a nonzero pinned size M and a shader buffer  *)
(* of an agreeing kind that requires S, the stage being visible, the        *)
(* binding fails exactly when S > M; with M = 0 the size error is never     *)
(* raised.                                                                  *)
C5_MinBufferSize ==
    Validated =>
        \A k \in PairedKeys :
            (LayoutInfoAt(k).type \in BufferTypes /\ KindsAgree(k) /\ VisibleAt(k)) =>
                /\ ~SizeFits(k) => RejectedWith(k, "minBufferBindingSize")
                /\ SizeFits(k) => ~FailsAt(k)

C5_Witness ==
    /\ Validated
    /\ \E k \in PairedKeys :
          /\ LayoutInfoAt(k).type \in BufferTypes
          /\ LayoutInfoAt(k).minBufferBindingSize = 64
          /\ ShaderInfoAt(k).minBufferBindingSize = 128
          /\ FailsAt(k)
          /\ validateResult.msg = "minBufferBindingSize"

(* C6: for every active group the computed sizes are, in packing order, the*)
(* shader's minimum size (0 when the shader declares nothing there) of each *)
(* buffer entry the layout does not pin; there is one per unverified buffer *)
(* and the ASSERT on the packed index holds.                                *)
IsUnpinnedBuffer(info) == info.type \in BufferTypes /\ info.minBufferBindingSize = 0

ExpectedSizes(g) ==
    LET unpinned == SelectSeq(layout.bindGroupLayouts[g], IsUnpinnedBuffer) IN
    [i \in 1..Len(unpinned) |->
        IF unpinned[i].binding \in DOMAIN entryPoint.bindings[g]
        THEN entryPoint.bindings[g][unpinned[i].binding].minBufferBindingSize
        ELSE 0]

C6_RequiredBufferSizes ==
    bufferSizes.computed =>
        /\ DOMAIN bufferSizes.sizes = GetBindGroupLayoutsMask(layout)
        /\ \A g \in GetBindGroupLayoutsMask(layout) :
              /\ bufferSizes.sizes[g] # AssertFailure
              /\ bufferSizes.sizes[g] = ExpectedSizes(g)
              /\ Len(bufferSizes.sizes[g]) =
                    GetUnverifiedBufferCount(layout.bindGroupLayouts[g])

C6_Witness ==
    /\ bufferSizes.computed
    /\ \E g \in GetBindGroupLayoutsMask(layout) :
          /\ Len(layout.bindGroupLayouts[g]) = 2
          /\ layout.bindGroupLayouts[g][1].minBufferBindingSize # 0
          /\ layout.bindGroupLayouts[g][1].type \in BufferTypes
          /\ layout.bindGroupLayouts[g][1].binding \in DOMAIN entryPoint.bindings[g]
          /\ bufferSizes.sizes[g] = <<0>>

(* C7: a shader binding in a group outside the active-group mask makes the  *)
(* pipeline-layout validation fail.                                         *)
C7_InactiveGroup ==
    Validated =>
        ((\E g \in InactiveGroups(layout) : DOMAIN entryPoint.bindings[g] # {}) =>
            validateResult.status = "error")

C7_Witness ==
    /\ validateResult.status = "error"
    /\ validateResult.msg = "NoBindGroupLayout"
    /\ validateResult.group = 1
    /\ GetBindGroupLayoutsMask(layout) = {0}
    /\ DOMAIN entryPoint.bindings[0] # {}

(* C8: a declared binding with no layout entry in its (active) group fails  *)
(* with the missing-entry error, whatever its kind.                         *)
C8_MissingEntry ==
    Validated =>
        \A k \in DeclaredKeys \ PairedKeys : RejectedWith(k, "MissingEntry")

C8_Witness ==
    /\ Validated
    /\ \E k \in DeclaredKeys \ PairedKeys :
          /\ FailsAt(k)
          /\ validateResult.msg = "MissingEntry"
          /\ ShaderInfoAt(k).type = "SampledTexture"

(* C9: a binding whose layout entry is of an agreeing kind but not visible  *)
(* to the entry point's stage fails with the visibility error.              *)
C9_Visibility ==
    Validated =>
        \A k \in PairedKeys :
            (KindsAgree(k) /\ ~VisibleAt(k)) => RejectedWith(k, "NotVisible")

C9_Witness ==
    /\ Validated
    /\ \E k \in PairedKeys :
          /\ IsSamplerSwap(k)
          /\ ~VisibleAt(k)
          /\ FailsAt(k)
          /\ validateResult.msg = "NotVisible"

(* C10: a sampled-texture binding passes only if the layout entry's         *)
(* component type and view dimension equal the shader's; a difference in    *)
(* either is an error.                                                      *)
C10_SampledTexture ==
    Validated =>
        \A k \in PairedKeys :
            ShaderInfoAt(k).type = "SampledTexture" =>
                /\ PassedAt(k) =>
                      /\ LayoutInfoAt(k).type = "SampledTexture"
                      /\ LayoutInfoAt(k).textureComponentType =
                            ShaderInfoAt(k).textureComponentType
                      /\ LayoutInfoAt(k).viewDimension = ShaderInfoAt(k).viewDimension
                /\ (/\ LayoutInfoAt(k).type = "SampledTexture"
                    /\ VisibleAt(k)
                    /\ LayoutInfoAt(k).textureComponentType #
                          ShaderInfoAt(k).textureComponentType)
                      => RejectedWith(k, "textureComponentType")
                /\ (/\ LayoutInfoAt(k).type = "SampledTexture"
                    /\ VisibleAt(k)
                    /\ LayoutInfoAt(k).textureComponentType =
                          ShaderInfoAt(k).textureComponentType
                    /\ LayoutInfoAt(k).viewDimension # ShaderInfoAt(k).viewDimension)
                      => RejectedWith(k, "viewDimension")

C10_Witness ==
    /\ Validated
    /\ \E k \in PairedKeys :
          /\ ShaderInfoAt(k).type = "SampledTexture"
          /\ LayoutInfoAt(k).type = "SampledTexture"
          /\ LayoutInfoAt(k).textureComponentType = ShaderInfoAt(k).textureComponentType
          /\ LayoutInfoAt(k).viewDimension # ShaderInfoAt(k).viewDimension
          /\ FailsAt(k)
          /\ validateResult.msg = "viewDimension"

(* C11: a readonly or writeonly storage-texture binding passes only if the  *)
(* layout entry has its kind, its storage texture format and its view       *)
(* dimension; a difference in the format or in the view dimension is an     *)
(* error; and the two ASSERTs on the formats hold whenever they are reached.*)
IsAccessStorageTexture(info) ==
    info.type \in {"ReadonlyStorageTexture", "WriteonlyStorageTexture"}

C11_StorageTexture ==
    Validated =>
        /\ validateResult.status # "assert"
        /\ \A k \in PairedKeys :
              IsAccessStorageTexture(ShaderInfoAt(k)) =>
                /\ PassedAt(k) =>
                      /\ LayoutInfoAt(k).type = ShaderInfoAt(k).type
                      /\ LayoutInfoAt(k).storageTextureFormat =
                            ShaderInfoAt(k).storageTextureFormat
                      /\ LayoutInfoAt(k).viewDimension = ShaderInfoAt(k).viewDimension
                /\ (/\ LayoutInfoAt(k).type = ShaderInfoAt(k).type
                    /\ VisibleAt(k)) =>
                      /\ LayoutInfoAt(k).storageTextureFormat # "Undefined"
                      /\ ShaderInfoAt(k).storageTextureFormat # "Undefined"
                      /\ LayoutInfoAt(k).storageTextureFormat #
                            ShaderInfoAt(k).storageTextureFormat
                            => RejectedWith(k, "storageTextureFormat")
                      /\ (/\ LayoutInfoAt(k).storageTextureFormat =
                                ShaderInfoAt(k).storageTextureFormat
                          /\ LayoutInfoAt(k).viewDimension # ShaderInfoAt(k).viewDimension)
                            => RejectedWith(k, "viewDimension")

C11_Witness ==
    /\ Validated
    /\ \E k \in PairedKeys :
          /\ ShaderInfoAt(k).type = "WriteonlyStorageTexture"
          /\ LayoutInfoAt(k).type = "WriteonlyStorageTexture"
          /\ VisibleAt(k)
          /\ LayoutInfoAt(k).storageTextureFormat # ShaderInfoAt(k).storageTextureFormat
          /\ LayoutInfoAt(k).viewDimension = ShaderInfoAt(k).viewDimension
          /\ FailsAt(k)
          /\ validateResult.msg = "storageTextureFormat"

-----------------------------------------------------------------------------
(* The resources a module declares, over all classes.                       *)
AllResources ==
    shader.uniform_buffers \o shader.separate_images \o shader.separate_samplers
        \o shader.storage_buffers \o shader.storage_images

HasKey(resource) == resource.hasBinding /\ resource.hasSet

HasDuplicateKey ==
    \E i, j \in 1..Len(AllResources) :
        /\ i # j
        /\ HasKey(AllResources[i]) /\ HasKey(AllResources[j])
        /\ AllResources[i].set = AllResources[j].set
        /\ AllResources[i].binding = AllResources[j].binding

ReflectedKeys ==
    UNION {{<<g, b>> : b \in DOMAIN mMainEntryPoint.bindings[g]} :
              g \in 0..(kMaxBindGroups - 1)}

(* C12: a module that declares one (group, binding) key twice, in one       *)
(* resource class or in two, fails reflection and gets no metadata; a       *)
(* reflected module has as many keys as it declares resources.              *)
C12_DuplicateKey ==
    Extracted =>
        /\ HasDuplicateKey =>
              extractResult.status = "error" /\ mMainEntryPoint = NoMetadata
        /\ extractResult.status = "ok" =>
              Cardinality(ReflectedKeys) = Len(AllResources)

C12_Witness ==
    /\ Extracted
    /\ useSpvc
    /\ Len(shader.uniform_buffers) = 1
    /\ Len(shader.separate_samplers) = 1
    /\ HasDuplicateKey
    /\ extractResult.msg = "DuplicateBindings"

-----------------------------------------------------------------------------
ReflectedInfoOf(resource) == mMainEntryPoint.bindings[resource.set][resource.binding]

(* C13: in a reflected module every storage image has a declared format     *)
(* that maps to a texture format with storage support, which is the format  *)
(* recorded; its kind is writeonly when only NonReadable is set, readonly    *)
(* when only NonWritable is set, and read-write when neither is.            *)
C13_StorageImage ==
    (Extracted /\ extractResult.status = "ok") =>
        \A i \in 1..Len(shader.storage_images) :
            LET r == shader.storage_images[i]
                info == ReflectedInfoOf(r)
            IN /\ ToWGPUTextureFormat(r.format) # "Undefined"
               /\ ToWGPUTextureFormat(r.format) \in StorageUsageFormats
               /\ info.storageTextureFormat = ToWGPUTextureFormat(r.format)
               /\ (r.nonReadable /\ ~r.nonWritable) => info.type = "WriteonlyStorageTexture"
               /\ (~r.nonReadable /\ r.nonWritable) => info.type = "ReadonlyStorageTexture"
               /\ (~r.nonReadable /\ ~r.nonWritable) => info.type = "StorageTexture"

C13_Witness ==
    /\ Extracted
    /\ extractResult.status = "ok"
    /\ \E i \in 1..Len(shader.storage_images) :
          LET r == shader.storage_images[i] IN
          /\ r.nonReadable /\ ~r.nonWritable
          /\ r.format = "R32ui"
          /\ ReflectedInfoOf(r).type = "WriteonlyStorageTexture"
          /\ ReflectedInfoOf(r).storageTextureFormat = "R32Uint"

(* An unmapped format, and a mapped format without storage support, are     *)
(* each rejected.                                                           *)
C13_WitnessRejected ==
    /\ Extracted
    /\ extractResult.msg = "StorageFormatNotSupported"
    /\ Len(shader.storage_images) = 1
    /\ shader.storage_images[1].format = "R8"

-----------------------------------------------------------------------------
LocationsOf(variables) == {variables[i].location : i \in 1..Len(variables)}

(* C14: a vertex-stage module with a stage input that has no location fails *)
(* reflection; when it is reflected, usedVertexAttributes is exactly the    *)
(* set of its input locations; whichever backend is active.                 *)
C14_VertexInputs ==
    (Extracted /\ shader.execution_model = "Vertex") =>
        /\ ~AllHaveLocation(shader.stage_inputs) => extractResult.status = "error"
        /\ extractResult.status = "ok" =>
              mMainEntryPoint.usedVertexAttributes = LocationsOf(shader.stage_inputs)

(* C15: a fragment-stage module fails reflection if a stage output has no   *)
(* location or one at or above kMaxColorAttachments; when it is reflected,  *)
(* fragmentOutputFormatBaseTypes holds the base type of the output at each  *)
(* declared location and Other elsewhere.                                   *)
C15_FragmentOutputs ==
    (Extracted /\ shader.execution_model = "Fragment") =>
        /\ ~AllHaveLocation(shader.stage_outputs) => extractResult.status = "error"
        /\ (\E l \in LocationsOf(shader.stage_outputs) : l >= kMaxColorAttachments)
              => extractResult.status = "error"
        /\ extractResult.status = "ok" =>
              \A l \in 0..(kMaxColorAttachments - 1) :
                  IF l \in LocationsOf(shader.stage_outputs)
                  THEN \E i \in 1..Len(shader.stage_outputs) :
                          /\ shader.stage_outputs[i].location = l
                          /\ mMainEntryPoint.fragmentOutputFormatBaseTypes[l] =
                                SpirvCrossBaseTypeToFormatType(
                                    shader.stage_outputs[i].basetype)
                  ELSE mMainEntryPoint.fragmentOutputFormatBaseTypes[l] = "Other"

(* C16: a module that declares a combined image+sampler binding fails       *)
(* reflection and gets no metadata, whichever backend is active.            *)
C16_CombinedImageSampler ==
    (Extracted /\ shader.sampled_images > 0) =>
        extractResult.status = "error" /\ mMainEntryPoint = NoMetadata

DeclaresOverLimitGroup ==
    \E i \in 1..Len(AllResources) :
        HasKey(AllResources[i]) /\ AllResources[i].set >= kMaxBindGroups

DeclaresOverLimitAttribute ==
    /\ shader.execution_model = "Vertex"
    /\ \E l \in LocationsOf(shader.stage_inputs) : l >= kMaxVertexAttributes

DeclaresOverLimitOutput ==
    /\ shader.execution_model = "Fragment"
    /\ \E l \in LocationsOf(shader.stage_outputs) : l >= kMaxColorAttachments

-----------------------------------------------------------------------------
(* Shader module descriptors and their validation.                          *)

MaxWords == 2    \* a SPIR-V code has at most this many words

Words == {0, 1}
SpirvCodes == SeqsUpTo(Words, MaxWords)

(* spirvTools.Validate(code, codeSize): the verdict of SPIRV-Tools, which   *)
(* is fixed by the code; here the codes that open with word 1 are the valid *)
(* ones.                                                                    *)
SpirvToolsValidate(code) == Len(code) > 0 /\ code[1] = 1

(* A WGSL source with what Tint does with it: the first stage that fails on *)
(* it, if any, and the SPIR-V its generator writes.                         *)
WgslSource(text, failsAt, spirv) == [text |-> text, failsAt |-> failsAt, spirv |-> spirv]

WgslSources ==
    {WgslSource("A", "None", <<1, 0>>),
     WgslSource("A'", "None", <<1, 0>>),
     WgslSource("B", "None", <<1, 1>>),
     WgslSource("P", "Parse", <<>>),
     WgslSource("M", "IsValid", <<>>),
     WgslSource("T", "Determine", <<>>),
     WgslSource("V", "Validate", <<1>>),
     WgslSource("G", "Generate", <<>>)}

ValidateSpirv(code) ==
    IF ~SpirvToolsValidate(code)
    THEN ValidationError("SPIRV Validation failure", -1, -1)
    ELSE Success

ValidateWGSL(source) ==
    IF source.failsAt = "Parse" THEN ValidationError("Tint WGSL failure: Parser", -1, -1)
    ELSE IF source.failsAt = "IsValid"
    THEN ValidationError("Tint WGSL failure: Invalid module generated", -1, -1)
    ELSE IF source.failsAt = "Determine"
    THEN ValidationError("Tint WGSL failure: Type Determination", -1, -1)
    ELSE IF source.failsAt = "Validate"
    THEN ValidationError("Tint WGSL failure: Validation", -1, -1)
    ELSE Success

SpirvDescriptor(code) == [sType |-> "ShaderModuleSPIRVDescriptor", code |-> code]
WgslDescriptor(source) == [sType |-> "ShaderModuleWGSLDescriptor", source |-> source]
OtherDescriptor == [sType |-> "Other"]

ChainedStructs ==
    {SpirvDescriptor(code) : code \in SpirvCodes}
        \cup {WgslDescriptor(source) : source \in WgslSources}
        \cup {OtherDescriptor}

MaxChain == 2    \* a descriptor chains at most this many sub-descriptors

Descriptors == {[chain |-> c] : c \in SeqsUpTo(ChainedStructs, MaxChain)}

(* The second sub-descriptor is never looked at.                            *)
HasSecondChained_Never(d) == FALSE

(* descriptor->nextInChain == nullptr; chainedDescriptor->nextInChain !=    *)
(* nullptr.                                                                 *)
MissingChained(d) == Len(d.chain) = 0
HasSecondChained(d) == Len(d.chain) > 1

Checked(result, handed) == [result |-> result, validated |-> handed]
Handed(validator, chained) == [validator |-> validator, chained |-> chained]

ValidateShaderModuleDescriptor(d, enabled) ==
    IF MissingChained(d)
    THEN Checked(ValidationError("Shader module descriptor missing chained descriptor",
                                 -1, -1), <<>>)
    ELSE IF HasSecondChained(d)
    THEN Checked(ValidationError(
                     "Shader module descriptor chained nextInChain must be nullptr",
                     -1, -1), <<>>)
    ELSE LET chainedDescriptor == d.chain[1] IN
         CASE chainedDescriptor.sType = "ShaderModuleSPIRVDescriptor" ->
                  Checked(ValidateSpirv(chainedDescriptor.code),
                          <<Handed("ValidateSpirv", chainedDescriptor)>>)
           [] chainedDescriptor.sType = "ShaderModuleWGSLDescriptor" ->
                  IF enabled
                  THEN Checked(ValidateWGSL(chainedDescriptor.source),
                               <<Handed("ValidateWGSL", chainedDescriptor)>>)
                  ELSE Checked(ValidationError("WGSL not supported (yet)", -1, -1), <<>>)
           [] OTHER -> Checked(ValidationError("Unsupported sType", -1, -1), <<>>)

NoReflectState ==
    /\ shader = NoValue
    /\ useSpvc = FALSE
    /\ mMainEntryPoint = NoMetadata
    /\ extractResult = NoResult
NoCompatState ==
    /\ entryPoint = NoMetadata
    /\ layout = NoLayout
    /\ validateResult = NoResult
    /\ bufferSizes = NoSizes

InitDescriptor ==
    /\ NoReflectState
    /\ NoCompatState
    /\ NoModuleState
    /\ wgslEnabled \in BOOLEAN
    /\ descriptor \in Descriptors
    /\ descriptorResult = NoResult
    /\ validated = <<>>

DoValidateShaderModuleDescriptor ==
    /\ descriptorResult = NoResult
    /\ LET r == ValidateShaderModuleDescriptor(descriptor, wgslEnabled)
       IN /\ descriptorResult' = r.result
          /\ validated' = r.validated
    /\ UNCHANGED <<wgslEnabled, descriptor>>
    /\ UNCHANGED <<reflectVars, compatVars, moduleVars, otherVars>>

NextDescriptor == DoValidateShaderModuleDescriptor

SpecDescriptor == InitDescriptor /\ [][NextDescriptor]_vars

DescriptorChecked == descriptorResult.status # "none"

RecognizedSTypes == {"ShaderModuleSPIRVDescriptor", "ShaderModuleWGSLDescriptor"}

PayloadPasses(chained) ==
    IF chained.sType = "ShaderModuleSPIRVDescriptor"
    THEN SpirvToolsValidate(chained.code)
    ELSE chained.source.failsAt \notin {"Parse", "IsValid", "Determine", "Validate"}

(* C18: ValidateShaderModuleDescriptor accepts a descriptor only if it has  *)
(* exactly one chained sub-descriptor, of type SPIR-V or WGSL, whose        *)
(* payload passes the validator of its type; a descriptor with no chained   *)
(* sub-descriptor, with a second one, or with an unrecognized sType is      *)
(* rejected with a validation error and no payload is handed to a           *)
(* validator.                                                               *)
C18_DescriptorValidation ==
    DescriptorChecked =>
        /\ descriptorResult.status \in {"ok", "error"}
        /\ descriptorResult.status = "ok" =>
              /\ Len(descriptor.chain) = 1
              /\ descriptor.chain[1].sType \in RecognizedSTypes
              /\ PayloadPasses(descriptor.chain[1])
              /\ Len(validated) = 1 /\ validated[1].chained = descriptor.chain[1]
        /\ (\/ Len(descriptor.chain) # 1
            \/ descriptor.chain[1].sType \notin RecognizedSTypes)
              => descriptorResult.status = "error" /\ validated = <<>>

C18_Witness ==
    /\ DescriptorChecked
    /\ Len(descriptor.chain) = 2
    /\ descriptor.chain[1].sType = "ShaderModuleSPIRVDescriptor"
    /\ SpirvToolsValidate(descriptor.chain[1].code)
    /\ descriptorResult.status = "error"
    /\ validated = <<>>

C18_WitnessAccepted ==
    /\ DescriptorChecked
    /\ wgslEnabled
    /\ Len(descriptor.chain) = 1
    /\ descriptor.chain[1].sType = "ShaderModuleWGSLDescriptor"
    /\ descriptorResult.status = "ok"

-----------------------------------------------------------------------------
(* The module object: construction, MakeError, InitializeBase, reflection,  *)
(* the metadata queries and the cache's comparison.                         *)

ModuleNames == {"a", "b"}

Put(f, k, v) == [x \in DOMAIN f \cup {k} |-> IF x = k THEN v ELSE f[x]]

(* An empty std::string mWgsl.                                              *)
NoSource == [text |-> ""]

Module(isError, mType, mSpirv, mWgsl) ==
    [isError |-> isError, mType |-> mType, mSpirv |-> mSpirv, mWgsl |-> mWgsl,
     mMainEntryPoint |-> NoMetadata]

(* ObjectBase::IsError.                                                     *)
IsError(m) == m.isError

(* ASSERT(condition): fatal when the condition is false.                    *)
AssertionFails(condition) == ~condition

(* ShaderModuleBase(device, descriptor).                                    *)
ShaderModuleBase(d) ==
    IF AssertionFails(~MissingChained(d)) THEN [status |-> "assert"]
    ELSE LET chained == d.chain[1] IN
         CASE chained.sType = "ShaderModuleSPIRVDescriptor" ->
                  [status |-> "ok",
                   module |-> Module(FALSE, "Spirv", chained.code, NoSource)]
           [] chained.sType = "ShaderModuleWGSLDescriptor" ->
                  [status |-> "ok",
                   module |-> Module(FALSE, "Wgsl", <<>>, chained.source)]
           [] OTHER -> [status |-> "unreachable"]

(* ShaderModuleBase(device, ObjectBase::kError), returned by MakeError.     *)
ErrorModule == Module(TRUE, "Undefined", <<>>, NoSource)

ConvertWGSLToSPIRV(source) ==
    IF source.failsAt = "Parse"
    THEN [status |-> "error", msg |-> "Tint WGSL->SPIR-V failure: Parser", spirv |-> <<>>]
    ELSE IF source.failsAt = "IsValid"
    THEN [status |-> "error", msg |-> "Tint WGSL->SPIR-V failure: Invalid module generated",
          spirv |-> <<>>]
    ELSE IF source.failsAt = "Determine"
    THEN [status |-> "error", msg |-> "Tint WGSL->SPIR-V failure: Type Determination",
          spirv |-> <<>>]
    ELSE IF source.failsAt = "Generate"
    THEN [status |-> "error", msg |-> "Tint WGSL->SPIR-V failure: Generator", spirv |-> <<>>]
    ELSE [status |-> "ok", msg |-> "", spirv |-> source.spirv]

(* The retagging variant of InitializeBase: a translated module becomes an  *)
(* IR module.                                                               *)
InitializeBaseOf_Retagged(m, enabled) ==
    IF m.mType = "Wgsl" /\ enabled /\ ConvertWGSLToSPIRV(m.mWgsl).status = "ok"
    THEN [status |-> "ok", msg |-> "",
          module |-> [m EXCEPT !.mSpirv = ConvertWGSLToSPIRV(m.mWgsl).spirv,
                               !.mType = "Spirv"]]
    ELSE [status |-> "ok", msg |-> "", module |-> m]

(* ShaderModuleBase::InitializeBase: the module afterwards and the result.  *)
InitializeBaseOf(m, enabled) ==
    IF m.mType = "Wgsl"
    THEN IF enabled
         THEN LET r == ConvertWGSLToSPIRV(m.mWgsl) IN
              IF r.status = "ok"
              THEN [status |-> "ok", msg |-> "", module |-> [m EXCEPT !.mSpirv = r.spirv]]
              ELSE [status |-> "error", msg |-> r.msg, module |-> m]
         ELSE [status |-> "error", msg |-> "WGSL not supported (yet)", module |-> m]
    ELSE [status |-> "ok", msg |-> "", module |-> m]

EqualityFunc(a, b) == a.mSpirv = b.mSpirv

MetadataQueries ==
    {"GetBindingInfo", "GetUsedVertexAttributes", "GetFragmentOutputBaseTypes",
     "GetExecutionModel", "ComputeRequiredBufferSizesForLayout",
     "ValidateCompatibilityWithPipelineLayout"}

(* Layouts handed to the two layout queries: an empty one, and one with a   *)
(* uniform buffer at group 0, binding 0.                                    *)
UniformBufferLayout ==
    PipelineLayoutOf({Slot(0, 0, <<NoInfo, [DefaultBindingInfo EXCEPT
                                               !.visibility = Stages]>>)},
                     {0}, <<>>)

ModuleLayouts == {NoLayout, UniformBufferLayout}

(* What the reflection APIs report of the modules reflected here: a vertex  *)
(* module with a uniform buffer at group 0, binding 0 and one input, and a  *)
(* module with a push constant buffer.                                      *)
ModuleShaders ==
    {ShaderOf("Vertex", 0, 0, <<[DefaultResource EXCEPT !.structSize = 32]>>,
              <<LocatedFloat(0)>>, <<>>),
     ShaderOf("Vertex", 1, 0, <<>>, <<>>, <<>>)}

Called(op, name, status, value) ==
    [op |-> op, on |-> name, status |-> status, value |-> value]

(* The same of a query, with the layout it was handed.                      *)
CalledWith(op, name, pipelineLayout, status, value) ==
    [op |-> op, on |-> name, status |-> status, value |-> value,
     layout |-> pipelineLayout]

(* The queries without their assertions.                                    *)
MetadataCall_Unasserted(m, op, pipelineLayout, undefinedOutcome) ==
    IF m.mMainEntryPoint = NoMetadata
    THEN [status |-> "undefined", value |-> undefinedOutcome]
    ELSE [status |-> "ok", value |-> m.mMainEntryPoint.stage]

(* GetBindingInfo .. ValidateCompatibilityWithPipelineLayout: each asserts  *)
(* !IsError() and then reads through mMainEntryPoint; reading through a     *)
(* null mMainEntryPoint is undefined, with the outcome undefinedOutcome.    *)
MetadataCall(m, op, pipelineLayout, undefinedOutcome) ==
    IF AssertionFails(~IsError(m)) THEN [status |-> "assert", value |-> NoValue]
    ELSE IF m.mMainEntryPoint = NoMetadata
    THEN [status |-> "undefined", value |-> undefinedOutcome]
    ELSE [status |-> "ok",
          value |->
            CASE op = "GetBindingInfo" -> m.mMainEntryPoint.bindings
              [] op = "GetUsedVertexAttributes" -> m.mMainEntryPoint.usedVertexAttributes
              [] op = "GetFragmentOutputBaseTypes" ->
                     m.mMainEntryPoint.fragmentOutputFormatBaseTypes
              [] op = "GetExecutionModel" -> m.mMainEntryPoint.stage
              [] op = "ComputeRequiredBufferSizesForLayout" ->
                     ComputeRequiredBufferSizesForLayout(m.mMainEntryPoint, pipelineLayout)
              [] op = "ValidateCompatibilityWithPipelineLayout" ->
                     ValidateCompatibilityWithPipelineLayout(m.mMainEntryPoint,
                                                             pipelineLayout)]

UndefinedOutcomes == {"crash", "garbage"}

(* The outcomes open to a query of m: more than one only where the read is  *)
(* undefined.                                                               *)
OutcomesOf(m) ==
    IF ~IsError(m) /\ m.mMainEntryPoint = NoMetadata THEN UndefinedOutcomes ELSE {NoValue}

LayoutQueries ==
    {"ComputeRequiredBufferSizesForLayout", "ValidateCompatibilityWithPipelineLayout"}

(* A query with its layout argument; the getters take none.                 *)
QueryCalls ==
    {<<op, NoLayout>> : op \in MetadataQueries \ LayoutQueries}
        \cup (LayoutQueries \X ModuleLayouts)

(* No module object yet, on a device that reflects with SPIRV-Cross, in a    *)
(* build with or without WGSL.                                              *)
InitModule ==
    /\ shader = NoValue
    /\ useSpvc = FALSE
    /\ mMainEntryPoint = NoMetadata
    /\ extractResult = NoResult
    /\ NoCompatState
    /\ wgslEnabled \in BOOLEAN
    /\ descriptor = NoDescriptor
    /\ descriptorResult = NoResult
    /\ validated = <<>>
    /\ NoModuleState

Construct(name) ==
    /\ name \notin DOMAIN modules
    /\ \E chain \in SeqsUpTo(ChainedStructs, 1) :
          LET r == ShaderModuleBase([chain |-> chain]) IN
          /\ modules' = IF r.status = "ok" THEN Put(modules, name, r.module) ELSE modules
          /\ callResult' = Called("ShaderModuleBase", name, r.status, NoValue)
    /\ UNCHANGED <<reflectVars, compatVars, descriptorVars, otherVars>>

MakeError(name) ==
    /\ name \notin DOMAIN modules
    /\ modules' = Put(modules, name, ErrorModule)
    /\ callResult' = Called("MakeError", name, "ok", NoValue)
    /\ UNCHANGED <<reflectVars, compatVars, descriptorVars, otherVars>>

InitializeBase(name) ==
    /\ name \in DOMAIN modules
    /\ LET r == InitializeBaseOf(modules[name], wgslEnabled) IN
          /\ modules' = [modules EXCEPT ![name] = r.module]
          /\ callResult' = Called("InitializeBase", name, r.status, NoValue)
    /\ UNCHANGED <<reflectVars, compatVars, descriptorVars, otherVars>>

(* ShaderModuleBase::ExtractSpirvInfo on a module object; sh is what the    *)
(* compiler argument (or the spvc context) reports.                         *)
ModuleExtractSpirvInfo(name) ==
    /\ name \in DOMAIN modules
    /\ \E sh \in ModuleShaders :
          IF AssertionFails(~IsError(modules[name]))
          THEN /\ modules' = modules
               /\ callResult' = Called("ExtractSpirvInfo", name, "assert", NoValue)
          ELSE LET r == IF useSpvc
                        THEN ExtractSpirvInfoWithSpvc(sh)
                        ELSE ExtractSpirvInfoWithSpirvCross(sh)
               IN /\ modules' = IF r.status = "ok"
                                 THEN [modules EXCEPT ![name].mMainEntryPoint = r.metadata]
                                 ELSE modules
                  /\ callResult' = Called("ExtractSpirvInfo", name, r.status, NoValue)
    /\ UNCHANGED <<reflectVars, compatVars, descriptorVars, otherVars>>

(* A query that throws the metadata away when the layout check fails.       *)
Query_ForgetsOnFailure(name) ==
    /\ name \in DOMAIN modules
    /\ \E call \in QueryCalls, undefinedOutcome \in OutcomesOf(modules[name]) :
          LET r == MetadataCall(modules[name], call[1], call[2], undefinedOutcome) IN
          /\ callResult' = CalledWith(call[1], name, call[2], r.status, r.value)
          /\ modules' = IF /\ call[1] = "ValidateCompatibilityWithPipelineLayout"
                           /\ r.status = "ok" /\ r.value.status = "error"
                        THEN [modules EXCEPT ![name].mMainEntryPoint = NoMetadata]
                        ELSE modules
    /\ UNCHANGED <<reflectVars, compatVars, descriptorVars, otherVars>>

Query(name) ==
    /\ name \in DOMAIN modules
    /\ \E call \in QueryCalls, undefinedOutcome \in OutcomesOf(modules[name]) :
          LET r == MetadataCall(modules[name], call[1], call[2], undefinedOutcome) IN
          callResult' = CalledWith(call[1], name, call[2], r.status, r.value)
    /\ UNCHANGED modules
    /\ UNCHANGED <<reflectVars, compatVars, descriptorVars, otherVars>>

(* The cache comparing two modules.                                         *)
CacheCompare(name, other) ==
    /\ name \in DOMAIN modules
    /\ other \in DOMAIN modules
    /\ name # other
    /\ callResult' = Called("EqualityFunc", name, "ok",
                            EqualityFunc(modules[name], modules[other]))
    /\ UNCHANGED modules
    /\ UNCHANGED <<reflectVars, compatVars, descriptorVars, otherVars>>

NextModule ==
    \/ \E name \in ModuleNames : Construct(name)
    \/ \E name \in ModuleNames : MakeError(name)
    \/ \E name \in ModuleNames : InitializeBase(name)
    \/ \E name \in ModuleNames : ModuleExtractSpirvInfo(name)
    \/ \E name \in ModuleNames : Query(name)
    \/ \E name, other \in ModuleNames : CacheCompare(name, other)

SpecModule == InitModule /\ [][NextModule]_vars

MetadataDependent == MetadataQueries \cup {"ExtractSpirvInfo"}

(* C19: a module made by MakeError never holds metadata, and every          *)
(* metadata-dependent call on it (the four getters, the two layout          *)
(* operations and ExtractSpirvInfo) trips the !IsError() assertion: it      *)
(* returns neither a value nor an error.                                    *)
C19_ErrorModule ==
    /\ \A name \in DOMAIN modules :
          IsError(modules[name]) => modules[name].mMainEntryPoint = NoMetadata
    /\ (/\ callResult.op \in MetadataDependent
        /\ IsError(modules[callResult.on]))
          => callResult.status = "assert"

C19_Witness ==
    /\ callResult.op = "ValidateCompatibilityWithPipelineLayout"
    /\ IsError(modules[callResult.on])
    /\ callResult.status = "assert"
    /\ \E name \in DOMAIN modules : modules[name].mMainEntryPoint # NoMetadata

(* The binary IR of a module: the code it was given, or what its source     *)
(* translates to.                                                           *)
HasIR(m) == m.mType = "Spirv" \/ ConvertWGSLToSPIRV(m.mWgsl).status = "ok"
IROf(m) == IF m.mType = "Spirv" THEN m.mSpirv ELSE ConvertWGSLToSPIRV(m.mWgsl).spirv

ComparablePairs ==
    {p \in (DOMAIN modules) \X (DOMAIN modules) :
        /\ p[1] # p[2]
        /\ ~IsError(modules[p[1]]) /\ ~IsError(modules[p[2]])
        /\ HasIR(modules[p[1]]) /\ HasIR(modules[p[2]])}

(* C20: from construction onward, EqualityFunc holds of two non-error       *)
(* modules exactly when their binary IR (for a module given as source, the  *)
(* IR its source translates to) is the same word sequence.                  *)
C20_EqualityIsIREquality ==
    \A p \in ComparablePairs :
        EqualityFunc(modules[p[1]], modules[p[2]])
            <=> IROf(modules[p[1]]) = IROf(modules[p[2]])

(* The same of two modules whose InitializeBase has both succeeded.         *)
Translated(m) == m.mType = "Spirv" \/ m.mSpirv = ConvertWGSLToSPIRV(m.mWgsl).spirv

C20_AfterInitializeBase ==
    \A p \in ComparablePairs :
        (Translated(modules[p[1]]) /\ Translated(modules[p[2]]))
            => (EqualityFunc(modules[p[1]], modules[p[2]])
                    <=> IROf(modules[p[1]]) = IROf(modules[p[2]]))

(* A module object as construction fixed it: its discriminator, and the     *)
(* representation it was given.                                             *)
SameOrigin(before, after) ==
    /\ after.mType = before.mType
    /\ after.isError = before.isError
    /\ after.mWgsl = before.mWgsl
    /\ before.mType = "Spirv" => after.mSpirv = before.mSpirv

(* The representation the discriminator names is the one the module holds:  *)
(* an IR-created module has no source; a source-created module has its      *)
(* source, and its IR is empty or what that source translates to.           *)
OneOriginal(m) ==
    \/ m.mType = "Spirv" /\ m.mWgsl = NoSource /\ m.mSpirv \in SpirvCodes
    \/ /\ m.mType = "Wgsl"
       /\ m.mWgsl \in WgslSources
       /\ m.mSpirv = <<>> \/ m.mSpirv = m.mWgsl.spirv

(* C21: the type discriminator of a module is set by its constructor and no *)
(* later step changes it, nor the representation the module was given; in   *)
(* every state a non-error module holds the one original representation     *)
(* its discriminator names (the code of an IR-created module, the source of *)
(* a source-created one) and not the other.                                 *)
C21_TypeAndRepresentation ==
    [][/\ \A name \in DOMAIN modules :
             /\ name \in DOMAIN modules'
             /\ SameOrigin(modules[name], modules'[name])
       /\ \A name \in DOMAIN modules' :
             ~IsError(modules'[name]) => OneOriginal(modules'[name])]_vars

C21_Witness ==
    /\ \E name \in DOMAIN modules :
          /\ modules[name].mType = "Wgsl"
          /\ modules[name].mSpirv # <<>>
          /\ callResult.op = "InitializeBase" /\ callResult.on = name
    /\ \E name \in DOMAIN modules : modules[name].mType = "Spirv"

-----------------------------------------------------------------------------
(* Two threads calling ExtractSpirvInfo on one module, and a reader of its  *)
(* metadata.  A call reflects (the backend builds a new EntryPointMetadata) *)
(* and then assigns the result to mMainEntryPoint; nothing in the call      *)
(* looks at mMainEntryPoint first or takes a lock.                          *)

Threads == {"t1", "t2"}

NoExtraction == [pc |-> "idle"]

Event(what, who) == [event |-> what, thread |-> who]
EventsOf(what) == {i \in 1..Len(log) : log[i].event = what}

(* The modules of ModuleShaders, and a fragment module with one output.     *)
MemoShaders ==
    ModuleShaders \cup {ShaderOf("Fragment", 0, 0, <<>>, <<>>, <<LocatedFloat(0)>>)}

InitMemo ==
    /\ shader \in MemoShaders
    /\ useSpvc \in BOOLEAN
    /\ mMainEntryPoint = NoMetadata
    /\ extractResult = NoResult
    /\ NoCompatState
    /\ NoDescriptorState
    /\ modules = [name \in {"a"} |-> Module(FALSE, "Spirv", <<1>>, NoSource)]
    /\ callResult = NoCall
    /\ calls = [t \in Threads |-> NoExtraction]
    /\ cache = {}
    /\ client = NoClient
    /\ log = <<>>

(* ExtractSpirvInfo up to the backend's return: ASSERT(!IsError()), then    *)
(* ExtractSpirvInfoWithSpvc or ExtractSpirvInfoWithSpirvCross.              *)
Reflect(t) ==
    /\ calls[t].pc = "idle"
    /\ ~AssertionFails(~IsError(modules["a"]))
    /\ LET r == IF useSpvc
                THEN ExtractSpirvInfoWithSpvc(shader)
                ELSE ExtractSpirvInfoWithSpirvCross(shader)
       IN calls' = [calls EXCEPT ![t] = [pc |-> "reflected", result |-> r]]
    /\ log' = Append(log, Event("reflect", t))
    /\ UNCHANGED <<modules, callResult, cache, client>>
    /\ UNCHANGED <<reflectVars, compatVars, descriptorVars>>

(* The rest of ExtractSpirvInfo: DAWN_TRY_ASSIGN returns the error, or      *)
(* moves the new metadata into mMainEntryPoint.  An assignment that follows *)
(* another thread's with no synchronization races with it: which of the two *)
(* writes the member ends up holding is then not determined.                *)
Assign(t) ==
    /\ calls[t].pc = "reflected"
    /\ LET r == calls[t].result
           raced == \E i \in EventsOf("assign") : log[i].thread # t
       IN IF r.status = "ok"
          THEN /\ \E kept \in (IF raced THEN {r.metadata, modules["a"].mMainEntryPoint}
                                        ELSE {r.metadata}) :
                      modules' = [modules EXCEPT !["a"].mMainEntryPoint = kept]
               /\ log' = Append(log, Event("assign", t))
               /\ callResult' = Called("ExtractSpirvInfo", "a", "ok", NoValue)
          ELSE /\ UNCHANGED <<modules, log>>
               /\ callResult' = Called("ExtractSpirvInfo", "a", r.status, NoValue)
    /\ calls' = [calls EXCEPT ![t] = [pc |-> "returned", result |-> calls[t].result]]
    /\ UNCHANGED <<cache, client>>
    /\ UNCHANGED <<reflectVars, compatVars, descriptorVars>>

(* GetBindingInfo by a reader, once: it returns a reference into the        *)
(* metadata mMainEntryPoint points to.                                      *)
TakeReference ==
    /\ EventsOf("reference") = {}
    /\ modules["a"].mMainEntryPoint # NoMetadata
    /\ log' = Append(log, Event("reference", "reader"))
    /\ callResult' = Called("GetBindingInfo", "a", "ok",
                            modules["a"].mMainEntryPoint.bindings)
    /\ UNCHANGED <<modules, calls, cache, client>>
    /\ UNCHANGED <<reflectVars, compatVars, descriptorVars>>

NextMemo ==
    \/ \E t \in Threads : Reflect(t)
    \/ \E t \in Threads : Assign(t)
    \/ TakeReference

SpecMemo == InitMemo /\ [][NextMemo]_vars

(* C22: over two ExtractSpirvInfo calls on one module, in any interleaving, *)
(* reflection is computed once, mMainEntryPoint is assigned at most once,   *)
(* and it is not assigned after a reader took a reference to the metadata.  *)
C22_MemoizedOnce ==
    /\ Cardinality(EventsOf("reflect")) <= 1
    /\ Cardinality(EventsOf("assign")) <= 1
    /\ \A i \in EventsOf("reference"), j \in EventsOf("assign") : j < i

Metadata(name) == modules[name].mMainEntryPoint

(* C23: ValidateCompatibilityWithPipelineLayout and                         *)
(* ComputeRequiredBufferSizesForLayout leave the module and its metadata as *)
(* they were, whether they succeed or fail; what they return is fixed by    *)
(* the metadata and the layout they are handed, whatever was checked        *)
(* before; and a module that has just failed against one layout passes      *)
(* against a layout it is compatible with.                                  *)
C23_LayoutChecksReadOnly ==
    [][(callResult'.op \in LayoutQueries /\ callResult'.status = "ok") =>
          LET name == callResult'.on IN
          /\ modules' = modules
          /\ callResult'.op = "ValidateCompatibilityWithPipelineLayout" =>
                /\ callResult'.value =
                      ValidateCompatibilityWithPipelineLayout(Metadata(name),
                                                              callResult'.layout)
                /\ (/\ callResult.op = "ValidateCompatibilityWithPipelineLayout"
                    /\ callResult.on = name
                    /\ callResult.status = "ok"
                    /\ callResult.value.status = "error"
                    /\ callResult'.layout = UniformBufferLayout)
                      => callResult'.value = Success
          /\ callResult'.op = "ComputeRequiredBufferSizesForLayout" =>
                callResult'.value =
                    ComputeRequiredBufferSizesForLayout(Metadata(name),
                                                        callResult'.layout)]_vars

C23_Witness ==
    /\ callResult.op = "ValidateCompatibilityWithPipelineLayout"
    /\ callResult.status = "ok"
    /\ callResult.layout = UniformBufferLayout
    /\ callResult.value = Success
    /\ Metadata(callResult.on).bindings[0] # EmptyMap

C23_WitnessFailure ==
    /\ callResult.op = "ValidateCompatibilityWithPipelineLayout"
    /\ callResult.status = "ok"
    /\ callResult.value.status = "error"
    /\ Metadata(callResult.on) # NoMetadata

-----------------------------------------------------------------------------
(* The device's cache of shader modules.  A module is looked up by its IR   *)
(* (EqualityFunc); a module created on a miss is initialized, marked as the *)
(* cached reference and inserted; the destructor takes it out again.        *)

EmptyCache == [shaderModules |-> {}, cachedReferences |-> {}]

(* CachedObject::IsCachedReference of the module called name.               *)
IsCachedReference(name) == name \in cache.cachedReferences

(* The cached module equal to candidate, if any.                            *)
CacheHits(candidate) ==
    {e \in cache.shaderModules : EqualityFunc(modules[e], candidate)}

(* DeviceBase::UncacheShaderModule: erases the entry whose key equals the   *)
(* module's.                                                                *)
UncacheShaderModule(name) ==
    [shaderModules |->
        {e \in cache.shaderModules : ~EqualityFunc(modules[e], modules[name])},
     cachedReferences |-> cache.cachedReferences \ {name}]

(* A destructor that leaves the cache alone.                                *)
DestructorOf_NeverUncaches(name) == [cache EXCEPT !.cachedReferences = @ \ {name}]

(* ~ShaderModuleBase: the cache after the module called name is gone.       *)
DestructorOf(name) ==
    IF IsCachedReference(name) THEN UncacheShaderModule(name) ELSE cache

Without(f, k) == [x \in DOMAIN f \ {k} |-> f[x]]

InitCache ==
    /\ NoReflectState
    /\ NoCompatState
    /\ wgslEnabled \in BOOLEAN
    /\ descriptor = NoDescriptor
    /\ descriptorResult = NoResult
    /\ validated = <<>>
    /\ modules = EmptyMap
    /\ callResult = NoCall
    /\ calls = EmptyMap
    /\ cache = EmptyCache
    /\ client = NoClient
    /\ log = <<>>

(* DeviceBase::GetOrCreateShaderModule: the module of the descriptor is     *)
(* built and initialized; a cached module with the same IR is returned in   *)
(* its place, or else it becomes the cached reference.                      *)
GetOrCreateShaderModule(name) ==
    /\ name \notin DOMAIN modules
    /\ \E chain \in SeqsUpTo(ChainedStructs \ {OtherDescriptor}, 1) \ {<<>>} :
          LET built == ShaderModuleBase([chain |-> chain]).module
              r == InitializeBaseOf(built, wgslEnabled)
          IN IF r.status # "ok"
             THEN /\ modules' = Put(modules, name, ErrorModule)
                  /\ cache' = cache
                  /\ callResult' = Called("GetOrCreateShaderModule", name, "error", NoValue)
             ELSE IF CacheHits(r.module) # {}
             THEN /\ UNCHANGED <<modules, cache>>
                  /\ callResult' = Called("GetOrCreateShaderModule",
                                          CHOOSE e \in CacheHits(r.module) : TRUE,
                                          "ok", "cached")
             ELSE /\ modules' = Put(modules, name, r.module)
                  /\ cache' = [shaderModules |-> cache.shaderModules \cup {name},
                               cachedReferences |-> cache.cachedReferences \cup {name}]
                  /\ callResult' = Called("GetOrCreateShaderModule", name, "ok", "created")
    /\ UNCHANGED <<calls, client, log>>
    /\ UNCHANGED <<reflectVars, compatVars, descriptorVars>>

(* A module object built outside the cache: a duplicate made by the         *)
(* constructor and InitializeBase alone.                                    *)
CreateUncached(name) ==
    /\ name \notin DOMAIN modules
    /\ \E chain \in SeqsUpTo(ChainedStructs \ {OtherDescriptor}, 1) \ {<<>>} :
          LET built == ShaderModuleBase([chain |-> chain]).module
              r == InitializeBaseOf(built, wgslEnabled)
          IN /\ modules' = Put(modules, name, r.module)
             /\ callResult' = Called("ShaderModuleBase", name, r.status, NoValue)
    /\ UNCHANGED <<cache, calls, client, log>>
    /\ UNCHANGED <<reflectVars, compatVars, descriptorVars>>

MakeErrorUncached(name) ==
    /\ name \notin DOMAIN modules
    /\ modules' = Put(modules, name, ErrorModule)
    /\ callResult' = Called("MakeError", name, "ok", NoValue)
    /\ UNCHANGED <<cache, calls, client, log>>
    /\ UNCHANGED <<reflectVars, compatVars, descriptorVars>>

(* The last owner releases the module: ~ShaderModuleBase runs.              *)
Destroy(name) ==
    /\ name \in DOMAIN modules
    /\ cache' = DestructorOf(name)
    /\ modules' = Without(modules, name)
    /\ callResult' = Called("~ShaderModuleBase", name, "ok",
                            IF IsCachedReference(name) THEN "uncached" ELSE "untouched")
    /\ UNCHANGED <<calls, client, log>>
    /\ UNCHANGED <<reflectVars, compatVars, descriptorVars>>

NextCache ==
    \/ \E name \in ModuleNames : GetOrCreateShaderModule(name)
    \/ \E name \in ModuleNames : CreateUncached(name)
    \/ \E name \in ModuleNames : MakeErrorUncached(name)
    \/ \E name \in ModuleNames : Destroy(name)

SpecCache == InitCache /\ [][NextCache]_vars

Destroyed == DOMAIN modules \ DOMAIN modules'

(* C24: the destructor of the module that is the cache's reference takes it *)
(* out of the cache, so the cache never holds a destroyed module; the       *)
(* destructor of any other module (an error module, a duplicate that is not *)
(* cached) leaves the cache as it was.                                      *)
C24_DestructorUncaches ==
    [][/\ cache'.shaderModules \subseteq DOMAIN modules'
       /\ \A name \in Destroyed :
             /\ name \notin cache'.shaderModules
             /\ ~IsCachedReference(name) => cache' = cache]_vars

C24_Witness ==
    /\ callResult.op = "~ShaderModuleBase"
    /\ callResult.value = "uncached"
    /\ callResult.on \notin DOMAIN modules
    /\ cache.shaderModules # {}

C24_WitnessDuplicate ==
    /\ callResult.op = "~ShaderModuleBase"
    /\ callResult.value = "untouched"
    /\ \E e \in cache.shaderModules : modules[e].mType = "Wgsl"

-----------------------------------------------------------------------------
(* dawn_wire::client::ShaderModule: compilation-info requests and their     *)
(* callbacks.  The class declares the request serial and the table of       *)
(* requests; a request is keyed by the serial it was given.                 *)

MaxRequests == 3    \* GetCompilationInfo is called at most this many times

RequestStatuses == {"Success", "Error"}

CallbackEvent(serial, status, by) ==
    [event |-> "callback", serial |-> serial, status |-> status, by |-> by]

InitClient ==
    /\ NoReflectState
    /\ NoCompatState
    /\ NoDescriptorState
    /\ modules = EmptyMap
    /\ callResult = NoCall
    /\ calls = EmptyMap
    /\ cache = {}
    /\ client = NoClient
    /\ log = <<>>

(* GetCompilationInfo(callback, userdata): the request takes the next       *)
(* serial and waits in the table.                                           *)
GetCompilationInfo ==
    /\ client.mCompilationInfoRequestSerial < MaxRequests
    /\ LET serial == client.mCompilationInfoRequestSerial IN
       /\ client' = [mCompilationInfoRequestSerial |-> serial + 1,
                     mCompilationInfoRequests |->
                         Put(client.mCompilationInfoRequests, serial,
                             [callback |-> serial])]
       /\ callResult' = Called("GetCompilationInfo", "client", "ok", serial)
    /\ UNCHANGED <<modules, calls, cache, log>>
    /\ UNCHANGED <<reflectVars, compatVars, descriptorVars>>

(* GetCompilationInfoCallback(requestSerial, status, info): a reply.  A     *)
(* serial that is not in the table is refused; otherwise the entry is taken *)
(* out and its callback run.                                                *)
GetCompilationInfoCallback(requestSerial, status) ==
    /\ IF requestSerial \notin DOMAIN client.mCompilationInfoRequests
       THEN /\ UNCHANGED <<client, log>>
            /\ callResult' = Called("GetCompilationInfoCallback", "client", "ok", FALSE)
       ELSE /\ client' = [client EXCEPT !.mCompilationInfoRequests =
                                            Without(@, requestSerial)]
            /\ log' = Append(log, CallbackEvent(requestSerial, status, "reply"))
            /\ callResult' = Called("GetCompilationInfoCallback", "client", "ok", TRUE)
    /\ UNCHANGED <<modules, calls, cache>>
    /\ UNCHANGED <<reflectVars, compatVars, descriptorVars>>

RECURSIVE CancelAll(_)
CancelAll(serials) ==
    IF serials = {} THEN <<>>
    ELSE <<CallbackEvent(MinOf(serials), "DeviceLost", "disconnect")>>
            \o CancelAll(serials \ {MinOf(serials)})

(* A disconnect that runs the callbacks and keeps the entries.              *)
CancelCallbacksForDisconnect_KeepsEntries ==
    /\ log' = log \o CancelAll(DOMAIN client.mCompilationInfoRequests)
    /\ callResult' = Called("CancelCallbacksForDisconnect", "client", "ok", NoValue)
    /\ UNCHANGED <<client, modules, calls, cache>>
    /\ UNCHANGED <<reflectVars, compatVars, descriptorVars>>

(* CancelCallbacksForDisconnect: every waiting request has its callback run *)
(* with the device-lost status, and the table is emptied.                   *)
CancelCallbacksForDisconnect ==
    /\ log' = log \o CancelAll(DOMAIN client.mCompilationInfoRequests)
    /\ client' = [client EXCEPT !.mCompilationInfoRequests = EmptyMap]
    /\ callResult' = Called("CancelCallbacksForDisconnect", "client", "ok", NoValue)
    /\ UNCHANGED <<modules, calls, cache>>
    /\ UNCHANGED <<reflectVars, compatVars, descriptorVars>>

NextClient ==
    \/ GetCompilationInfo
    \/ \E requestSerial \in 0..MaxRequests, status \in RequestStatuses :
          GetCompilationInfoCallback(requestSerial, status)
    \/ CancelCallbacksForDisconnect

SpecClient == InitClient /\ [][NextClient]_vars

CallbacksOf(serial) ==
    {i \in 1..Len(log) : log[i].event = "callback" /\ log[i].serial = serial}

Registered == 0..(client.mCompilationInfoRequestSerial - 1)

(* C25: serials are handed out in increasing order, one per request; the    *)
(* callback of a request has run once when the request has been answered or *)
(* cancelled, and not at all while it waits in the table; it never runs a   *)
(* second time, whatever replies and disconnects follow; a callback run by  *)
(* a disconnect gets the device-lost status.                                *)
C25_CallbackOnce ==
    /\ DOMAIN client.mCompilationInfoRequests \subseteq Registered
    /\ \A serial \in Registered :
          Cardinality(CallbacksOf(serial)) =
              IF serial \in DOMAIN client.mCompilationInfoRequests THEN 0 ELSE 1
    /\ \A i \in 1..Len(log) :
          /\ log[i].serial \in Registered
          /\ log[i].by = "disconnect" => log[i].status = "DeviceLost"

C25_Witness ==
    /\ \E i, j \in 1..Len(log) : log[i].by = "reply" /\ log[j].by = "disconnect"
    /\ callResult.op = "GetCompilationInfoCallback"
    /\ callResult.value = FALSE
    /\ client.mCompilationInfoRequests # EmptyMap

-----------------------------------------------------------------------------
(* The pipelines of DynamicBufferOffsetTests: the bind group layouts of     *)
(* SetUp and the shaders of CreateRenderPipeline and CreateComputePipeline. *)

(* mBindGroupLayouts[0]: a uniform and a storage buffer at bindings 0 and 1,*)
(* a dynamic uniform and a dynamic storage buffer at bindings 3 and 4.      *)
TestBindings == {0, 1, 3, 4}

TestKind(b) == IF b \in {0, 3} THEN "UniformBuffer" ELSE "StorageBuffer"

(* Every entry of the test is visible to the compute and fragment stages;   *)
(* utils::MakeBindGroupLayout leaves minBufferBindingSize at 0.             *)
TestVisibility == {"Compute", "Fragment"}

TestLayoutInfo(b) ==
    [DefaultBindingInfo EXCEPT !.type = TestKind(b), !.visibility = TestVisibility]

(* The buffers of the test's shaders are one vec2<u32>: 8 bytes.            *)
TestBufferSize == 8

TestShaderInfo(b) ==
    [DefaultShaderBindingInfo EXCEPT !.type = TestKind(b),
                                     !.minBufferBindingSize = TestBufferSize]

(* The slots of one pipeline: the shader declares the bindings in declared  *)
(* of group 0, and binding 0 of group 1 when it is the inherited shader;    *)
(* the layout holds mBindGroupLayouts[0], and mBindGroupLayouts[1] when it  *)
(* is the inherited layout.                                                 *)
TestSlots(declared, shaderInherited, layoutInherited) ==
    {Slot(0, b, <<IF b \in declared THEN TestShaderInfo(b) ELSE NoInfo,
                  TestLayoutInfo(b)>>) : b \in TestBindings}
    \cup (IF shaderInherited \/ layoutInherited
          THEN {Slot(1, 0, <<IF shaderInherited THEN TestShaderInfo(0) ELSE NoInfo,
                             IF layoutInherited THEN TestLayoutInfo(0) ELSE NoInfo>>)}
          ELSE {})

TestMask(layoutInherited) == IF layoutInherited THEN {0, 1} ELSE {0}

(* The test's vertex shader declares no binding; its fragment and compute   *)
(* shaders declare all four.  The other subsets are shaders that use only   *)
(* part of the layout.                                                      *)
InitTest ==
    /\ shader = NoValue
    /\ useSpvc = FALSE
    /\ mMainEntryPoint = NoMetadata
    /\ extractResult = NoResult
    /\ \E stage \in Stages, declared \in SUBSET TestBindings,
          shaderInherited \in BOOLEAN, layoutInherited \in BOOLEAN :
          LET slots == TestSlots(declared, shaderInherited, layoutInherited) IN
          /\ entryPoint = MetadataOf(stage, slots)
          /\ layout = PipelineLayoutOf(slots, TestMask(layoutInherited), <<>>)
    /\ validateResult = NoResult
    /\ bufferSizes = NoSizes
    /\ NoDescriptorState
    /\ NoModuleState

SpecTest == InitTest /\ [][NextCompat]_vars

(* Every key the shader declares, in whatever group.                        *)
AllDeclaredKeys ==
    UNION {{<<g, b>> : b \in DOMAIN entryPoint.bindings[g]} :
              g \in 0..(kMaxBindGroups - 1)}

(* The layout has, in an active group, an entry of the same kind at key k   *)
(* that the shader's stage can see.                                         *)
MatchedAt(k) ==
    /\ k[1] \in GetBindGroupLayoutsMask(layout)
    /\ HasLayoutEntry(k)
    /\ LayoutInfoAt(k).type = ShaderInfoAt(k).type
    /\ VisibleAt(k)

(* The layout has an entry the shader has no declaration for.               *)
HasUnusedLayoutEntry ==
    \E g \in GetBindGroupLayoutsMask(layout) :
        \E i \in 1..Len(layout.bindGroupLayouts[g]) :
            layout.bindGroupLayouts[g][i].binding \notin DOMAIN entryPoint.bindings[g]

(* C26: the check constrains only what the shader declares: a shader with   *)
(* no bindings passes against every layout of the test, none of whose       *)
(* entries is visible to the vertex stage; a shader whose declared bindings *)
(* (at the binding numbers 0, 1, 3, 4) each have a layout entry of the same *)
(* kind visible to its stage passes, whatever entries the layout has        *)
(* besides; and a failure is always raised for a declared binding that has  *)
(* no such entry.                                                           *)
C26_OnlyDeclaredBindingsChecked ==
    Validated =>
        /\ AllDeclaredKeys = {} => validateResult = Success
        /\ (\A k \in AllDeclaredKeys : MatchedAt(k)) => validateResult = Success
        /\ validateResult # Success =>
              \E k \in AllDeclaredKeys :
                  /\ ~MatchedAt(k)
                  /\ validateResult.group = k[1]
                  /\ validateResult.msg # "NoBindGroupLayout" =>
                        validateResult.binding = k[2]

(* The test's vertex shader against the inherited layout: no binding        *)
(* declared, five layout entries, none visible to the vertex stage.         *)
C26_Witness ==
    /\ validateResult = Success
    /\ entryPoint.stage = "Vertex"
    /\ AllDeclaredKeys = {}
    /\ GetBindGroupLayoutsMask(layout) = {0, 1}
    /\ HasUnusedLayoutEntry

(* The test's inherited fragment shader: bindings 0, 1, 3, 4 of group 0 and *)
(* binding 0 of group 1.                                                    *)
C26_WitnessFragment ==
    /\ validateResult = Success
    /\ entryPoint.stage = "Fragment"
    /\ DOMAIN entryPoint.bindings[0] = TestBindings
    /\ DOMAIN entryPoint.bindings[1] = {0}

(* A shader that uses part of the layout only.                              *)
C26_WitnessPartial ==
    /\ validateResult = Success
    /\ entryPoint.stage = "Compute"
    /\ DOMAIN entryPoint.bindings[0] = {1, 4}
    /\ HasUnusedLayoutEntry

-----------------------------------------------------------------------------
(* ExtractSpirvInfo on a module that may already hold metadata: nothing in  *)
(* the function stops a second call.                                        *)

(* What an earlier call on a compute module without resources stored.       *)
PreviousMetadata == [NewEntryPointMetadata EXCEPT !.stage = "Compute"]

(* A module with faults at several steps: push constants or not, a uniform  *)
(* buffer under any decoration, with or without a sampler at the same key,  *)
(* and any one stage input and output.                                      *)
InitFaults ==
    \E model \in ExecutionModels, pc \in 0..1, d \in ResourceDecorations,
       duplicated \in BOOLEAN,
       inputs \in SeqsUpTo(StageInputs, 1),
       outputs \in SeqsUpTo({v \in StageOutputs : v.basetype = "Float"}, 1) :
        LET focus == Decorated([DefaultResource EXCEPT !.structSize = 32], d)
            twin == Decorated([DefaultResource EXCEPT !.class = "separate_samplers"], d)
        IN shader = ShaderOf(model, pc, 0,
                             IF duplicated THEN <<focus, twin>> ELSE <<focus>>,
                             inputs, outputs)

InitReextract ==
    /\ InitResources \/ InitStageVariables \/ InitFaults
    /\ useSpvc \in BOOLEAN
    /\ mMainEntryPoint \in {NoMetadata, PreviousMetadata}
    /\ extractResult = NoResult
    /\ entryPoint = NoMetadata
    /\ layout = NoLayout
    /\ validateResult = NoResult
    /\ bufferSizes = NoSizes
    /\ NoDescriptorState
    /\ NoModuleState

SpecReextract == InitReextract /\ [][Next]_vars

ExtractFailed == Extracted /\ extractResult.status # "ok"

(* The errors of the binding loops and the errors of the stage interface.   *)
StageInterfaceErrors ==
    {"NoLocationForVertexInput", "AttributeLocationOverLimits",
     "NeedLocationOnVertexOutput", "NeedLocationOnFragmentInput",
     "NoLocationForFragmentOutput", "FragmentOutputLocationOverLimits",
     "UnexpectedFragmentOutputType"}

OutputErrors ==
    {"NeedLocationOnVertexOutput", "NoLocationForFragmentOutput",
     "FragmentOutputLocationOverLimits", "UnexpectedFragmentOutputType"}

(* A fault the binding loops report, on either backend.                     *)
HasResourceFault ==
    \/ HasDuplicateKey
    \/ \E i \in 1..Len(AllResources) :
          HasKey(AllResources[i]) /\ AllResources[i].set >= kMaxBindGroups

(* A fault the loop over the stage inputs reports on the active backend.    *)
HasInputFault ==
    \E i \in 1..Len(shader.stage_inputs) :
        LET input == shader.stage_inputs[i] IN
        \/ shader.execution_model = "Fragment" /\ ~input.has_location
        \/ /\ shader.execution_model = "Vertex"
           /\ (~useSpvc /\ ~input.has_location) \/ input.location >= kMaxVertexAttributes

(* The error returned is the one of the first step that fails: the push     *)
(* constant check comes before everything else, the binding loops before    *)
(* the stage interface, the stage inputs before the stage outputs.          *)
FirstFailureReturned ==
    /\ shader.push_constant_buffers > 0 => extractResult.msg = "PushConstants"
    /\ extractResult.msg \in StageInterfaceErrors =>
          /\ shader.push_constant_buffers = 0
          /\ ~HasResourceFault
    /\ extractResult.msg \in OutputErrors => ~HasInputFault

(* C27: a call of ExtractSpirvInfo that fails, at whatever step of either   *)
(* backend, leaves mMainEntryPoint as it was before the call, holding no    *)
(* metadata or the metadata of an earlier call; the error it returns is the *)
(* one of the first failing step.                                           *)
C27_FailureKeepsMetadata ==
    [][ExtractFailed' =>
          /\ mMainEntryPoint' = mMainEntryPoint
          /\ extractResult'.status = "error" => FirstFailureReturned']_vars

(* A second call failed in the binding loops and the earlier metadata is    *)
(* still there.                                                             *)
C27_Witness ==
    /\ extractResult.status = "error"
    /\ extractResult.msg = "DuplicateBindings"
    /\ mMainEntryPoint = PreviousMetadata

(* A failure in the stage interface, after every binding had been filled in.*)
C27_WitnessLate ==
    /\ extractResult.status = "error"
    /\ extractResult.msg \in OutputErrors
    /\ Len(AllResources) > 0
    /\ mMainEntryPoint = PreviousMetadata
    /\ useSpvc

(* Two steps would fail; the earlier one is reported.                       *)
C27_WitnessFirst ==
    /\ extractResult.status = "error"
    /\ extractResult.msg = "DuplicateBindings"
    /\ HasInputFault
    /\ \E i \in 1..Len(shader.stage_outputs) : ~shader.stage_outputs[i].has_location
    /\ mMainEntryPoint = PreviousMetadata

(* The push constant check fails before a fault of the bindings is seen.    *)
C27_WitnessPushConstants ==
    /\ extractResult.status = "error"
    /\ extractResult.msg = "PushConstants"
    /\ HasResourceFault
    /\ mMainEntryPoint = PreviousMetadata

(* The stage inputs fail before a fault of the stage outputs is seen.       *)
C27_WitnessInputs ==
    /\ extractResult.status = "error"
    /\ extractResult.msg = "NeedLocationOnFragmentInput"
    /\ \E i \in 1..Len(shader.stage_outputs) :
          shader.stage_outputs[i].location >= kMaxColorAttachments

-----------------------------------------------------------------------------
(* ConvertWGSLToSPIRVWithPulling and ShaderModuleBase::GeneratePullingSpirv.*)
(* The stages are Tint's; what each of them answers is an input.            *)

PullingStages == <<"Parse", "IsValid", "Transform", "Determine", "Generate">>

PullingMessages ==
    [stage \in {PullingStages[i] : i \in 1..Len(PullingStages)} |->
        CASE stage = "Parse" -> "Tint WGSL->SPIR-V failure: Parser"
          [] stage = "IsValid" -> "Tint WGSL->SPIR-V failure: Invalid module generated"
          [] stage = "Transform" -> "Tint WGSL->SPIR-V failure: Vertex pulling transform"
          [] stage = "Determine" -> "Tint WGSL->SPIR-V failure: Type Determination"
          [] stage = "Generate" -> "Tint WGSL->SPIR-V failure: Generator"]

ToTintInputStepMode(mode) ==
    CASE mode = "Vertex" -> "kVertex"
      [] mode = "Instance" -> "kInstance"

ToTintVertexFormat(format) ==
    CASE format = "Float" -> "kF32"
      [] format = "Float4" -> "kVec4F32"
      [] format = "UInt2" -> "kVec2U32"

VertexAttribute(format, offset, shaderLocation) ==
    [format |-> format, offset |-> offset, shaderLocation |-> shaderLocation]

VertexBuffer(arrayStride, stepMode, attributes) ==
    [arrayStride |-> arrayStride, stepMode |-> stepMode, attributes |-> attributes]

(* VertexStateDescriptor: no buffer, one buffer with one attribute, two     *)
(* buffers the second of which is stepped per instance.                     *)
VertexStates ==
    {<<>>,
     <<VertexBuffer(4, "Vertex", <<VertexAttribute("Float", 0, 0)>>)>>,
     <<VertexBuffer(24, "Vertex", <<VertexAttribute("Float4", 0, 0),
                                    VertexAttribute("UInt2", 16, 1)>>),
       VertexBuffer(4, "Instance", <<VertexAttribute("Float", 0, 2)>>)>>}

(* The two loops that build the transform's vertex state.                   *)
TintVertexState(vertexState) ==
    [i \in 1..Len(vertexState) |->
        [array_stride |-> vertexState[i].arrayStride,
         step_mode |-> ToTintInputStepMode(vertexState[i].stepMode),
         attributes |->
            [j \in 1..Len(vertexState[i].attributes) |->
                [format |-> ToTintVertexFormat(vertexState[i].attributes[j].format),
                 offset |-> vertexState[i].attributes[j].offset,
                 shader_location |-> vertexState[i].attributes[j].shaderLocation]]]]

EntryPointNames == {"main", "vs"}
PullingSets == {0, kMaxBindGroups - 1}

(* generator.result() of the transformed module.                            *)
PulledSpirv(source, state, entryPointName, pullingBufferBindingSet) ==
    [wgsl |-> source.text, vertex_state |-> state, entry_point |-> entryPointName,
     pulling_buffer_binding_set |-> pullingBufferBindingSet]

NoSpirv == <<>>

Translation(status, msg, spirv, ran) ==
    [status |-> status, msg |-> msg, spirv |-> spirv, ran |-> ran]

(* The translation without the transform, as ConvertWGSLToSPIRV runs it.    *)
ConvertWGSLToSPIRVWithPulling_Untransformed(source, vertexState, entryPointName, pullingBufferBindingSet, failing) ==
    IF "Parse" \in failing
    THEN Translation("error", PullingMessages["Parse"], NoSpirv, <<"Parse">>)
    ELSE IF "IsValid" \in failing
    THEN Translation("error", PullingMessages["IsValid"], NoSpirv, <<"Parse", "IsValid">>)
    ELSE IF "Determine" \in failing
    THEN Translation("error", PullingMessages["Determine"], NoSpirv,
                     <<"Parse", "IsValid", "Determine">>)
    ELSE IF "Generate" \in failing
    THEN Translation("error", PullingMessages["Generate"], NoSpirv,
                     <<"Parse", "IsValid", "Determine", "Generate">>)
    ELSE Translation("ok", "",
                     PulledSpirv(source, TintVertexState(vertexState), entryPointName,
                                 pullingBufferBindingSet),
                     <<"Parse", "IsValid", "Determine", "Generate">>)

(* failing: the stages of Tint that answer false on this input; ran: the    *)
(* stages the call ran.                                                     *)
ConvertWGSLToSPIRVWithPulling(source, vertexState, entryPointName, pullingBufferBindingSet, failing) ==
    IF "Parse" \in failing
    THEN Translation("error", PullingMessages["Parse"], NoSpirv, <<"Parse">>)
    ELSE IF "IsValid" \in failing
    THEN Translation("error", PullingMessages["IsValid"], NoSpirv, <<"Parse", "IsValid">>)
    ELSE LET state == TintVertexState(vertexState) IN
         IF "Transform" \in failing
         THEN Translation("error", PullingMessages["Transform"], NoSpirv,
                          <<"Parse", "IsValid", "Transform">>)
         ELSE IF "Determine" \in failing
         THEN Translation("error", PullingMessages["Determine"], NoSpirv,
                          <<"Parse", "IsValid", "Transform", "Determine">>)
         ELSE IF "Generate" \in failing
         THEN Translation("error", PullingMessages["Generate"], NoSpirv, PullingStages)
         ELSE Translation("ok", "",
                          PulledSpirv(source, state, entryPointName, pullingBufferBindingSet),
                          PullingStages)

(* What Tint may answer on a source: the parser and the structural check    *)
(* answer as they do in ConvertWGSLToSPIRV; the later stages work on the    *)
(* transformed module.                                                      *)
TintAnswers(source) ==
    {failing \in SUBSET {PullingStages[i] : i \in 1..Len(PullingStages)} :
        "failsAt" \in DOMAIN source =>
            /\ "Parse" \in failing <=> source.failsAt = "Parse"
            /\ "IsValid" \in failing <=> source.failsAt = "IsValid"}

(* The modules a device holds: constructed from any descriptor with one     *)
(* sub-descriptor, before or after InitializeBase, and the error module.    *)
PullingModules ==
    LET constructed ==
            {ShaderModuleBase([chain |-> <<c>>]).module :
                c \in {SpirvDescriptor(<<1>>)} \cup {WgslDescriptor(s) : s \in WgslSources}}
    IN constructed
       \cup {InitializeBaseOf(m, TRUE).module : m \in constructed}
       \cup {ErrorModule}

InitPulling ==
    /\ NoReflectState
    /\ NoCompatState
    /\ wgslEnabled = TRUE
    /\ descriptor = NoDescriptor
    /\ descriptorResult = NoResult
    /\ validated = <<>>
    /\ modules \in [{"a"} -> PullingModules]
    /\ callResult = NoCall
    /\ calls = EmptyMap
    /\ cache = {}
    /\ client = NoClient
    /\ log = <<>>

(* ShaderModuleBase::GeneratePullingSpirv: const, and compiled only with    *)
(* DAWN_ENABLE_WGSL.  log holds the stages the call ran.                    *)
GeneratePullingSpirv(name) ==
    /\ wgslEnabled
    /\ name \in DOMAIN modules
    /\ \E vertexState \in VertexStates, entryPointName \in EntryPointNames,
          pullingBufferBindingSet \in PullingSets,
          failing \in TintAnswers(modules[name].mWgsl) :
          LET r == ConvertWGSLToSPIRVWithPulling(
                       modules[name].mWgsl, vertexState, entryPointName,
                       pullingBufferBindingSet, failing)
          IN /\ callResult' = [op |-> "GeneratePullingSpirv", on |-> name,
                               status |-> r.status, msg |-> r.msg, value |-> r.spirv,
                               failing |-> failing]
             /\ log' = r.ran
    /\ UNCHANGED <<modules, calls, cache, client>>
    /\ UNCHANGED <<reflectVars, compatVars, descriptorVars>>

NextPulling == \E name \in ModuleNames : GeneratePullingSpirv(name)

SpecPulling == InitPulling /\ [][NextPulling]_vars

Pulled == callResult.op = "GeneratePullingSpirv"

IsPrefix(s, t) == Len(s) <= Len(t) /\ \A i \in 1..Len(s) : s[i] = t[i]

(* C28: the stages run are an initial part of parse, structural validity,   *)
(* vertex-pulling transform, type determination, IR generation; the call    *)
(* ends at the first stage that fails, with the error naming that stage and *)
(* no IR; IR is returned when all five stages ran and none failed; the      *)
(* module is as it was before the call.                                     *)
C28_PullingStages ==
    [][Pulled' =>
          /\ modules' = modules
          /\ Len(log') > 0 /\ IsPrefix(log', PullingStages)
          /\ \A i \in 1..(Len(log') - 1) : log'[i] \notin callResult'.failing
          /\ callResult'.status = "error" =>
                /\ log'[Len(log')] \in callResult'.failing
                /\ callResult'.msg = PullingMessages[log'[Len(log')]]
                /\ callResult'.value = NoSpirv
          /\ callResult'.status = "ok" =>
                /\ log' = PullingStages
                /\ callResult'.failing = {}
                /\ callResult'.value # NoSpirv
                /\ callResult'.value.wgsl = modules[callResult'.on].mWgsl.text
          /\ callResult'.status \in {"ok", "error"}]_vars

(* The transform fails although the later stages would fail too.            *)
C28_Witness ==
    /\ Pulled
    /\ callResult.status = "error"
    /\ log = <<"Parse", "IsValid", "Transform">>
    /\ {"Determine", "Generate"} \subseteq callResult.failing
    /\ modules[callResult.on].mType = "Wgsl"

(* Every stage succeeds on a module that InitializeBase has translated.     *)
C28_WitnessTranslated ==
    /\ Pulled
    /\ callResult.status = "ok"
    /\ log = PullingStages
    /\ modules[callResult.on].mType = "Wgsl"
    /\ modules[callResult.on].mSpirv # <<>>

-----------------------------------------------------------------------------
(* The layout checks on a shader that declares a read-write storage         *)
(* texture, against every layout entry, the read-write StorageTexture       *)
(* entries included.                                                        *)

InitStorageTexture ==
    /\ NoReflectState
    /\ \E stage \in Stages, fb \in 0..MaxBinding,
          fp \in {p \in FocusPairs : p[1].type = "StorageTexture"},
          cg \in 0..MaxGroup, cp \in CompanionPairs \cup {NoPair} :
          LET slots == SlotsOf(fb, fp, cg, cp) IN
          /\ cp = NoPair => cg = 0
          /\ entryPoint = MetadataOf(stage, slots)
          /\ \E m \in MasksOf(slots) :
                \E order \in PackedOrders(LayoutEntriesOf(slots, 0)) :
                    layout = PipelineLayoutOf(slots, m, order)
    /\ validateResult = NoResult
    /\ bufferSizes = NoSizes
    /\ NoDescriptorState
    /\ NoModuleState

SpecStorageTexture == InitStorageTexture /\ [][NextCompat]_vars

(* The keys at which the shader declares a read-write storage texture.      *)
StorageTextureKeys ==
    {k \in AllDeclaredKeys : ShaderInfoAt(k).type = "StorageTexture"}

(* The layout has a read-write StorageTexture entry at key k that the       *)
(* shader's stage can see.                                                  *)
MeetsStorageTextureEntry(k) ==
    /\ k[1] \in GetBindGroupLayoutsMask(layout)
    /\ HasLayoutEntry(k)
    /\ LayoutInfoAt(k).type = "StorageTexture"
    /\ VisibleAt(k)

C29_WitnessConflict ==
    /\ validateResult.status = "error"
    /\ validateResult.msg = "TypeConflict"
    /\ \E k \in StorageTextureKeys :
          /\ FailsAt(k)
          /\ LayoutInfoAt(k).type = "WriteonlyStorageTexture"

-----------------------------------------------------------------------------
(* A storage image decorated both NonReadable and NonWritable.              *)
DoublyQualified(resource) == resource.nonReadable /\ resource.nonWritable

(* C30: in the SPIRV-Cross backend NonReadable is tested first: a storage   *)
(* image with NonReadable is reflected as WriteonlyStorageTexture whether   *)
(* or not it has NonWritable too, so one with both qualifiers is write-only,*)
(* never read-only and never read-write.                                    *)
C30_NonReadableFirst ==
    (Extracted /\ extractResult.status = "ok" /\ ~useSpvc) =>
        \A i \in 1..Len(shader.storage_images) :
            LET r == shader.storage_images[i] IN
            /\ DoublyQualified(r) => ReflectedInfoOf(r).type = "WriteonlyStorageTexture"
            /\ r.nonReadable <=> ReflectedInfoOf(r).type = "WriteonlyStorageTexture"

C30_Witness ==
    /\ Extracted
    /\ extractResult.status = "ok"
    /\ ~useSpvc
    /\ \E i \in 1..Len(shader.storage_images) :
          /\ DoublyQualified(shader.storage_images[i])
          /\ ReflectedInfoOf(shader.storage_images[i]).type = "WriteonlyStorageTexture"

====
